---- MODULE Spec2Model ----
(***************************************************************************)
(* A model of the tokenizer / lookahead buffer / html grammar pipeline.    *)
(*                                                                         *)
(*   tokenizer crate   src/tokenizer/src/lib.rs                            *)
(*       span::Span, tokenizer::BufIter, Ident/Punct/Whitespace,           *)
(*       tokenizer::Tokenizer, tokenizer::Peekable<N>                      *)
(*   html-parser crate src/html-parser/src/lib.rs                          *)
(*       Comment, DOCTYPE, Element, Attr, Text, tokenizer::Tokenizer       *)
(*   buf-iter crate    src/buf-iter/src/lib.rs                             *)
(*       BufIter (the byte cursor), Span, Error, ErrorKind                 *)
(*                                                                         *)
(* Bytes are their ASCII codes.  A buffer is a sequence of bytes; the Rust *)
(* index i (0-based) is the TLA+ index i + 1.                              *)
(***************************************************************************)
EXTENDS Integers, Sequences, FiniteSets, TLC

VARIABLES
    buf,        \* the borrowed source buffer, shared by every instance
    tz,         \* a tokenizer::Tokenizer driven directly (its BufIter)
    toks,       \* the tokens tz has yielded so far
    tzEnd,      \* tz.next() has returned None
    pk,         \* a tokenizer::Peekable<N>: [iter, peeked]
    drained,    \* the tokens pk.next() has returned so far
    pkLast,     \* what the last call on pk returned: [op, n, item]
    pkEnd,      \* pk.next() has returned None
    panicked,   \* a call on pk aborted (index out of bounds)
    gr,         \* the Peekable<4> owned by the html tokenizer::Tokenizer
    nodes,      \* the items the html Tokenizer has yielded so far
    grEnd,      \* "run", "none" (yielded None), "err" (yielded Err), "panic"
    debug_assertions,   \* the build: cfg(debug_assertions), with overflow checks
    cu,         \* a buf_iter::BufIter made by BufIter::new(buf): [offset, line, col]
    cuLast,     \* the last call on cu: [op, arg, pre, res], pre the cursor before it
    fk,         \* a buf_iter::BufIter made by BufIter::from_span(buf, fkSeed)
    fkSeed,     \* the Span fk was made from; Span::unknown() while there is no fk
    ext         \* a span extension: [op, self, span, out]

\* the variables of the tokenizer and html-parser instances
tokVars == <<tz, toks, tzEnd, pk, drained, pkLast, pkEnd, panicked, gr, nodes, grEnd>>
\* the variables of the buf-iter instances
curVars == <<debug_assertions, cu, cuLast, fk, fkSeed, ext>>

vars == <<buf, tz, toks, tzEnd, pk, drained, pkLast, pkEnd, panicked, gr, nodes, grEnd,
          debug_assertions, cu, cuLast, fk, fkSeed, ext>>

(***************************************************************************)
(* Bounds of the model.                                                    *)
(***************************************************************************)
MaxTokLen == 5
MaxPeekLen == 5
MaxBody == 3
MaxBangBody == 6
MaxElemBody == 5
MaxTagBody == 3
MaxQuoteBody == 4
MaxCurLen == 4
MaxSpanOffset == 9
MaxLine == 2
\* the width of usize in the model: the targets have 32 or 64 bits, narrowed
\* here so that 2^UsizeBits is an integer of the model checker
UsizeBits == 16

(***************************************************************************)
(* Bytes.                                                                  *)
(***************************************************************************)
TAB == 9
NL == 10
FF == 12
CR == 13
SP == 32
BANG == 33
QUOTE == 34
PLUS == 43
DASH == 45
SLASH == 47
DIGIT0 == 48
DIGIT3 == 51
DIGIT9 == 57
LT == 60
EQ == 61
GT == 62
UPPER_A == 65
UPPER_Z == 90
UNDERSCORE == 95
LOWER_A == 97
LOWER_Z == 122

\* u8::is_ascii_whitespace: U+0020 SPACE, U+0009 TAB, U+000A LF, U+000C FF, U+000D CR
is_ascii_whitespace(byte) == byte \in {SP, TAB, NL, FF, CR}

\* Ident::peek without the digits
Ident_peek_NoDigit(byte) ==
    \/ byte \in UPPER_A..UPPER_Z
    \/ byte \in LOWER_A..LOWER_Z
    \/ byte = UNDERSCORE

\* Ident::peek: matches!(byte, b'a'..=b'z' | b'A'..=b'Z' | b'0'..=b'9' | b'_')
Ident_peek(byte) ==
    \/ byte \in UPPER_A..UPPER_Z
    \/ byte \in LOWER_A..LOWER_Z
    \/ byte = UNDERSCORE
    \/ byte \in DIGIT0..DIGIT9

(***************************************************************************)
(* span::Span                                                              *)
(***************************************************************************)
Span_new(offset, len, line, col) ==
    [offset |-> offset, len |-> len, line |-> line, col |-> col]

Span_unknown == Span_new(0, 0, 0, 0)

\* Span::spanned_into that stops before the byte at span.offset
Span_spanned_into_Exclusive(self, span) ==
    [self EXCEPT !.len = span.offset - self.offset]

\* Span::spanned_into: self.len = span.offset - self.offset + 1
Span_spanned_into(self, span) ==
    [self EXCEPT !.len = span.offset - self.offset + 1]

\* Spanned::evaluate: &buf[span.offset..span.offset + span.len]; the slice
\* aborts when the range is not inside the buffer.
InBounds(b, span) == span.offset + span.len <= Len(b)

evaluate(b, span) == SubSeq(b, span.offset + 1, span.offset + span.len)

(***************************************************************************)
(* TokenTree; Option<TokenTree> and Option<&u8>                            *)
(***************************************************************************)
NoByte == -1

NoneTok == [kind |-> "None", span |-> Span_unknown]

Tok(kind, span) == [kind |-> kind, span |-> span]

IsSome(t) == t.kind # "None"

(***************************************************************************)
(* tokenizer::BufIter: [offset, line, col, last_span].  The slice iterator *)
(* `iter` stands at `offset`: both advance together, only in next().       *)
(***************************************************************************)
BufIter_new ==
    [offset |-> 0, line |-> 1, col |-> 1, last_span |-> Span_new(0, 1, 1, 1)]

BufIter_peek(b, it) == IF it.offset < Len(b) THEN b[it.offset + 1] ELSE NoByte

\* BufIter::next that captures the span after it has moved line and col
BufIter_next_LateSpan(b, it) ==
    IF it.offset >= Len(b)
    THEN [iter |-> it, span |-> Span_unknown, byte |-> NoByte]
    ELSE LET byte == b[it.offset + 1]
             line == IF byte = NL THEN it.line + 1 ELSE it.line
             col == IF byte = NL THEN 1 ELSE it.col + 1
             last == Span_new(it.offset, 1, line, col)
         IN  [iter |-> [offset |-> it.offset + 1, line |-> line, col |-> col,
                        last_span |-> last],
              span |-> last,
              byte |-> byte]

\* Iterator for BufIter: [iter, span, byte]; byte = NoByte for None
BufIter_next(b, it) ==
    IF it.offset >= Len(b)
    THEN [iter |-> it, span |-> Span_unknown, byte |-> NoByte]
    ELSE LET byte == b[it.offset + 1]
             last == Span_new(it.offset, 1, it.line, it.col)
         IN  [iter |-> [offset |-> it.offset + 1,
                        line |-> IF byte = NL THEN it.line + 1 ELSE it.line,
                        col |-> IF byte = NL THEN 1 ELSE it.col + 1,
                        last_span |-> last],
              span |-> last,
              byte |-> byte]

\* Spanned for BufIter
BufIter_span(it) == it.last_span

(***************************************************************************)
(* Ident::parse, Whitespace::parse, Punct::parse: [iter, item]             *)
(***************************************************************************)
RECURSIVE Ident_parse_loop(_, _, _)
Ident_parse_loop(b, it, span) ==
    LET byte == BufIter_peek(b, it) IN
    IF byte # NoByte /\ Ident_peek(byte)
    THEN LET r == BufIter_next(b, it)
         IN  Ident_parse_loop(b, r.iter, Span_spanned_into(span, r.span))
    ELSE [iter |-> it, item |-> Tok("Ident", span)]

Ident_parse(b, it) ==
    LET r == BufIter_next(b, it) IN Ident_parse_loop(b, r.iter, r.span)

RECURSIVE Whitespace_parse_loop(_, _, _)
\* Whitespace::parse that consumes the run and keeps the span of its first byte
Whitespace_parse_loop_KeepSpan(b, it, span) ==
    LET byte == BufIter_peek(b, it) IN
    IF byte # NoByte /\ is_ascii_whitespace(byte)
    THEN Whitespace_parse_loop(b, BufIter_next(b, it).iter, span)
    ELSE [iter |-> it, item |-> Tok("Whitespace", span)]

\* the loop of Whitespace::parse
Whitespace_parse_loop(b, it, span) ==
    LET byte == BufIter_peek(b, it) IN
    IF byte # NoByte /\ is_ascii_whitespace(byte)
    THEN LET r == BufIter_next(b, it)
         IN  Whitespace_parse_loop(b, r.iter, Span_spanned_into(span, r.span))
    ELSE [iter |-> it, item |-> Tok("Whitespace", span)]

Whitespace_parse(b, it) ==
    LET r == BufIter_next(b, it) IN Whitespace_parse_loop(b, r.iter, r.span)

\* Punct::parse that takes a second punctuation byte into the token
Punct_parse_Run(b, it) ==
    LET r == BufIter_next(b, it)
        s == BufIter_next(b, r.iter)
    IN  IF s.byte # NoByte /\ ~is_ascii_whitespace(s.byte) /\ ~Ident_peek(s.byte)
        THEN [iter |-> s.iter, item |-> Tok("Punct", Span_spanned_into(r.span, s.span))]
        ELSE [iter |-> r.iter, item |-> Tok("Punct", r.span)]

\* Punct::parse: one byte
Punct_parse(b, it) ==
    LET r == BufIter_next(b, it) IN [iter |-> r.iter, item |-> Tok("Punct", r.span)]

(***************************************************************************)
(* tokenizer::Tokenizer (the token iterator): [iter, item]                 *)
(***************************************************************************)
Tokenizer_new == BufIter_new

\* a tokenizer that ends at the first whitespace byte
Tokenizer_next_EndAtWhitespace(b, it) ==
    LET byte == BufIter_peek(b, it) IN
    IF byte = NoByte \/ is_ascii_whitespace(byte) THEN [iter |-> it, item |-> NoneTok]
    ELSE IF Ident_peek(byte) THEN Ident_parse(b, it)
    ELSE Punct_parse(b, it)

\* Iterator for Tokenizer: self.iter.peek()? and the three arms
Tokenizer_next(b, it) ==
    LET byte == BufIter_peek(b, it) IN
    IF byte = NoByte THEN [iter |-> it, item |-> NoneTok]
    ELSE IF is_ascii_whitespace(byte) THEN Whitespace_parse(b, it)
    ELSE IF Ident_peek(byte) THEN Ident_parse(b, it)
    ELSE Punct_parse(b, it)

\* Spanned for Tokenizer
Tokenizer_span(it) == BufIter_span(it)

\* tokenize(src): Tokenizer::new(src).collect()
RECURSIVE tokenize_from(_, _)
tokenize_from(b, it) ==
    LET r == Tokenizer_next(b, it) IN
    IF IsSome(r.item) THEN <<r.item>> \o tokenize_from(b, r.iter) ELSE <<>>

tokenize(b) == tokenize_from(b, Tokenizer_new)

(***************************************************************************)
(* tokenizer::Peekable<N>: [iter, peeked]; peeked is the array of N slots, *)
(* slot i of the code is peeked[i + 1].                                    *)
(*                                                                         *)
(* A loop of the code is a RECURSIVE operator; where the code binds the    *)
(* result of a call and then matches on it, the match is an operator of    *)
(* its own that takes the result as a parameter.                           *)
(***************************************************************************)
N == 4

Peekable_new == [iter |-> Tokenizer_new, peeked |-> [i \in 1..N |-> NoneTok]]

\* Peekable::peek_n: [pk, item, panic].  `self.peeked[i]` aborts for i >= N;
\* `self.iter.next()?` returns None as soon as the tokenizer is exhausted.
RECURSIVE peek_n_loop(_, _, _, _)
RECURSIVE peek_n_replace(_, _, _, _, _)
\* self.peeked[i].replace(self.iter.next()?), r the result of self.iter.next()
peek_n_replace(b, p, i, n, r) ==
    IF ~IsSome(r.item)
    THEN [pk |-> [p EXCEPT !.iter = r.iter], item |-> NoneTok, panic |-> FALSE]
    ELSE peek_n_loop(b, [iter |-> r.iter,
                         peeked |-> [p.peeked EXCEPT ![i + 1] = r.item]], i + 1, n)

\* peek_n that pulls a token for every slot 0..n, filled or not
peek_n_loop_Refill(b, p, i, n) ==
    IF i > n THEN [pk |-> p, item |-> p.peeked[n + 1], panic |-> FALSE]
    ELSE IF i >= N THEN [pk |-> p, item |-> NoneTok, panic |-> TRUE]
    ELSE peek_n_replace(b, p, i, n, Tokenizer_next(b, p.iter))

\* for i in 0..=n { .. }; self.peeked[n].as_ref()
peek_n_loop(b, p, i, n) ==
    IF i > n THEN [pk |-> p, item |-> p.peeked[n + 1], panic |-> FALSE]
    ELSE IF i >= N THEN [pk |-> p, item |-> NoneTok, panic |-> TRUE]
    ELSE IF IsSome(p.peeked[i + 1]) THEN peek_n_loop(b, p, i + 1, n)
    ELSE peek_n_replace(b, p, i, n, Tokenizer_next(b, p.iter))

Peekable_peek_n(b, p, n) == peek_n_loop(b, p, 0, n)

\* Peekable::peek
Peekable_peek(b, p) == Peekable_peek_n(b, p, 0)

RECURSIVE swap_loop(_, _)
\* a loop that leaves the last slot where it is
swap_loop_Short(peeked, offset) ==
    IF offset >= N - 2 THEN peeked
    ELSE swap_loop([peeked EXCEPT ![offset + 1] = peeked[offset + 2],
                                  ![offset + 2] = peeked[offset + 1]], offset + 1)

\* the loop of Peekable::next: for offset in 0..N-1 { swap(peeked[offset], peeked[offset+1]) }
swap_loop(peeked, offset) ==
    IF offset >= N - 1 THEN peeked
    ELSE swap_loop([peeked EXCEPT ![offset + 1] = peeked[offset + 2],
                                  ![offset + 2] = peeked[offset + 1]], offset + 1)

\* the arm  None => self.iter.next()  of Peekable::next, r its result
Peekable_next_iter(peeked, r) ==
    [pk |-> [iter |-> r.iter, peeked |-> peeked], item |-> r.item]

\* Peekable::next without the shift of the later slots
Peekable_next_NoShift(b, p) ==
    IF IsSome(p.peeked[1])
    THEN [pk |-> [iter |-> p.iter, peeked |-> [p.peeked EXCEPT ![1] = NoneTok]],
          item |-> p.peeked[1]]
    ELSE Peekable_next_iter([p.peeked EXCEPT ![1] = NoneTok], Tokenizer_next(b, p.iter))

\* Iterator for Peekable: [pk, item]
Peekable_next(b, p) ==
    IF IsSome(p.peeked[1])
    THEN [pk |-> [iter |-> p.iter, peeked |-> swap_loop([p.peeked EXCEPT ![1] = NoneTok], 0)],
          item |-> p.peeked[1]]
    ELSE Peekable_next_iter(swap_loop([p.peeked EXCEPT ![1] = NoneTok], 0),
                            Tokenizer_next(b, p.iter))

\* Spanned for Peekable
Peekable_span(p) ==
    IF IsSome(p.peeked[1]) THEN p.peeked[1].span ELSE Tokenizer_span(p.iter)

(***************************************************************************)
(* html-parser: SyntaxTree, error::Error and the Result of a production.   *)
(* A production returns [pk, st, node]: st = "ok" with the node, "err"     *)
(* with the Error as node, or "panic" when an expect(peeked!()) aborts.    *)
(***************************************************************************)
Node(kind, span, ekind, tag_span) ==
    [kind |-> kind, span |-> span, ekind |-> ekind, tag_span |-> tag_span, msg |-> ""]

\* Error::new(span, msg)
Error_new(span, msg) ==
    [kind |-> "Err", span |-> span, ekind |-> "None", tag_span |-> Span_unknown, msg |-> msg]

NoNode == Node("None", Span_unknown, "None", Span_unknown)

Ok(p, node) == [pk |-> p, st |-> "ok", node |-> node]

\* return Err(Error::new(iter.span(), msg))
Err(p, msg) == [pk |-> p, st |-> "err", node |-> Error_new(Peekable_span(p), msg)]

Panic(p) == [pk |-> p, st |-> "panic", node |-> NoNode]

\* iter.next().expect(peeked!()) as the last step of a loop, n the result of next()
Expected(n) == IF ~IsSome(n.item) THEN Panic(n.pk) ELSE Ok(n.pk, NoNode)

\* Error messages: a string of the module cannot hold a backquote, so the
\* code's backquotes are written ' and its message  expected `"`  is written
\* "expected 'DQUOTE'".

\* the pattern  Tree1::Punct(punct) if punct.evaluate(buf)[0] == byte
IsPunct(b, t, byte) == t.kind = "Punct" /\ evaluate(b, t.span)[1] = byte

\* span.spanned_into(iter.span()); Ok(Self { span, .. }), body the result of
\* the production's loops
Spanned(kind, span, ekind, tag_span, body) ==
    IF body.st # "ok" THEN body
    ELSE Ok(body.pk, Node(kind, Span_spanned_into(span, Peekable_span(body.pk)),
                          ekind, tag_span))

(***************************************************************************)
(* Comment                                                                 *)
(***************************************************************************)
\* Comment::peek: [pk, ok]; the n-th test is
\*   if !matches!(iter.peek_n(n), Some(Punct(p)) if p.evaluate(buf)[0] == bytes[n]) { return false }
RECURSIVE peek_puncts(_, _, _, _)
RECURSIVE peek_puncts_match(_, _, _, _)
peek_puncts_match(b, n, bytes, r) ==
    IF ~IsPunct(b, r.item, bytes[n + 1]) THEN [pk |-> r.pk, ok |-> FALSE]
    ELSE peek_puncts(b, r.pk, n + 1, bytes)

peek_puncts(b, p, n, bytes) ==
    IF n >= Len(bytes) THEN [pk |-> p, ok |-> TRUE]
    ELSE peek_puncts_match(b, n, bytes, Peekable_peek_n(b, p, n))

\* Comment::peek that looks at three tokens only
Comment_peek_ThreeTokens(b, p) == peek_puncts(b, p, 0, <<LT, BANG, DASH>>)

\* Comment::peek: [pk, ok]
Comment_peek(b, p) == peek_puncts(b, p, 0, <<LT, BANG, DASH, DASH>>)

\* the 'outer loop of Comment::parse; stage 0: before the first `-`,
\* stage 1: before the second `-`, stage 2: the inner loop
RECURSIVE Comment_parse_loop(_, _, _)
RECURSIVE Comment_parse_match(_, _, _)
\* Comment::parse that also ends on a `>` right after a single `-`
Comment_parse_match_DashGt(b, stage, r) ==
    IF ~IsSome(r.item) THEN Err(r.pk, "unexpected eof")
    ELSE IF stage = 0 THEN
        IF IsPunct(b, r.item, DASH) THEN Comment_parse_loop(b, r.pk, 1)
        ELSE Comment_parse_loop(b, r.pk, 0)
    ELSE IF stage = 1 THEN
        IF IsPunct(b, r.item, DASH) THEN Comment_parse_loop(b, r.pk, 2)
        ELSE IF IsPunct(b, r.item, GT) THEN Ok(r.pk, NoNode)
        ELSE Comment_parse_loop(b, r.pk, 0)
    ELSE
        IF IsPunct(b, r.item, GT) THEN Ok(r.pk, NoNode)
        ELSE IF IsPunct(b, r.item, DASH) THEN Comment_parse_loop(b, r.pk, 2)
        ELSE Comment_parse_loop(b, r.pk, 0)

\* Comment::parse whose inner loop leaves on a further `-`
Comment_parse_match_NoDashRun(b, stage, r) ==
    IF ~IsSome(r.item) THEN Err(r.pk, "unexpected eof")
    ELSE IF stage = 0 THEN
        IF IsPunct(b, r.item, DASH) THEN Comment_parse_loop(b, r.pk, 1)
        ELSE Comment_parse_loop(b, r.pk, 0)
    ELSE IF stage = 1 THEN
        IF IsPunct(b, r.item, DASH) THEN Comment_parse_loop(b, r.pk, 2)
        ELSE Comment_parse_loop(b, r.pk, 0)
    ELSE
        IF IsPunct(b, r.item, GT) THEN Ok(r.pk, NoNode)
        ELSE Comment_parse_loop(b, r.pk, 0)

\* Comment::parse, the match on next!() of the outer and of the inner loop
Comment_parse_match(b, stage, r) ==
    IF ~IsSome(r.item) THEN Err(r.pk, "unexpected eof")
    ELSE IF stage = 0 THEN
        IF IsPunct(b, r.item, DASH) THEN Comment_parse_loop(b, r.pk, 1)
        ELSE Comment_parse_loop(b, r.pk, 0)
    ELSE IF stage = 1 THEN
        IF IsPunct(b, r.item, DASH) THEN Comment_parse_loop(b, r.pk, 2)
        ELSE Comment_parse_loop(b, r.pk, 0)
    ELSE
        IF IsPunct(b, r.item, GT) THEN Ok(r.pk, NoNode)
        ELSE IF IsPunct(b, r.item, DASH) THEN Comment_parse_loop(b, r.pk, 2)
        ELSE Comment_parse_loop(b, r.pk, 0)

Comment_parse_loop(b, p, stage) == Comment_parse_match(b, stage, Peekable_next(b, p))

\* the k leading  iter.next().expect(peeked!())  of a production: [pk, st, tree],
\* tree the first token; r the result of the latest next()
RECURSIVE expect_next(_, _, _, _)
expect_next(b, k, tree, r) ==
    IF ~IsSome(r.item) THEN [pk |-> r.pk, st |-> "panic", tree |-> tree]
    ELSE IF k <= 1
    THEN [pk |-> r.pk, st |-> "ok", tree |-> IF IsSome(tree) THEN tree ELSE r.item]
    ELSE expect_next(b, k - 1, IF IsSome(tree) THEN tree ELSE r.item,
                     Peekable_next(b, r.pk))

\* Comment::parse that counts the two `-` of the opening towards the terminator
Comment_parse_body_CountOpen(b, o) ==
    IF o.st = "panic" THEN Panic(o.pk)
    ELSE Spanned("Comment", o.tree.span, "None", Span_unknown,
                 Comment_parse_loop(b, o.pk, 2))

\* Comment::parse after the four opening tokens
Comment_parse_body(b, o) ==
    IF o.st = "panic" THEN Panic(o.pk)
    ELSE Spanned("Comment", o.tree.span, "None", Span_unknown,
                 Comment_parse_loop(b, o.pk, 0))

Comment_parse(b, p) ==
    Comment_parse_body(b, expect_next(b, 4, NoneTok, Peekable_next(b, p)))

(***************************************************************************)
(* DOCTYPE                                                                 *)
(***************************************************************************)
\* DOCTYPE::peek: [pk, ok]
DOCTYPE_peek(b, p) == peek_puncts(b, p, 0, <<LT, BANG>>)

RECURSIVE DOCTYPE_parse_loop(_, _)
RECURSIVE DOCTYPE_parse_match(_, _)
\* DOCTYPE::parse that stops at any punctuation
DOCTYPE_parse_match_AnyPunct(b, r) ==
    IF ~IsSome(r.item) THEN Err(r.pk, "unexpected eof")
    ELSE IF r.item.kind = "Punct" THEN Ok(r.pk, NoNode)
    ELSE DOCTYPE_parse_loop(b, r.pk)

\* DOCTYPE::parse, the match on next!() of the loop
DOCTYPE_parse_match(b, r) ==
    IF ~IsSome(r.item) THEN Err(r.pk, "unexpected eof")
    ELSE IF IsPunct(b, r.item, GT) THEN Ok(r.pk, NoNode)
    ELSE DOCTYPE_parse_loop(b, r.pk)

DOCTYPE_parse_loop(b, p) == DOCTYPE_parse_match(b, Peekable_next(b, p))

DOCTYPE_parse_body(b, o) ==
    IF o.st = "panic" THEN Panic(o.pk)
    ELSE Spanned("DOCTYPE", o.tree.span, "None", Span_unknown,
                 DOCTYPE_parse_loop(b, o.pk))

DOCTYPE_parse(b, p) ==
    DOCTYPE_parse_body(b, expect_next(b, 2, NoneTok, Peekable_next(b, p)))

(***************************************************************************)
(* Attr::scan: [pk, st, node]                                              *)
(***************************************************************************)
\* close quote
RECURSIVE Attr_scan_close(_, _)
RECURSIVE Attr_scan_close_match(_, _)
\* Attr::scan whose value also ends at a `>`
Attr_scan_close_match_StopAtGt(b, r) ==
    IF ~IsSome(r.item) THEN Err(r.pk, "unexpected eof")
    ELSE IF IsPunct(b, r.item, QUOTE) \/ IsPunct(b, r.item, GT) THEN Ok(r.pk, NoNode)
    ELSE Attr_scan_close(b, r.pk)

\* Attr::scan, the match on next!() of the close quote loop
Attr_scan_close_match(b, r) ==
    IF ~IsSome(r.item) THEN Err(r.pk, "unexpected eof")
    ELSE IF IsPunct(b, r.item, QUOTE) THEN Ok(r.pk, NoNode)
    ELSE Attr_scan_close(b, r.pk)

Attr_scan_close(b, p) == Attr_scan_close_match(b, Peekable_next(b, p))

\* open quote
RECURSIVE Attr_scan_open(_, _)
RECURSIVE Attr_scan_open_match(_, _)
RECURSIVE Attr_scan_open_next(_, _, _)
\* iter.next().expect(peeked!()) then break (quote) or continue, n the result of next()
Attr_scan_open_next(b, quote, n) ==
    IF ~IsSome(n.item) THEN Panic(n.pk)
    ELSE IF quote THEN Attr_scan_close(b, n.pk)
    ELSE Attr_scan_open(b, n.pk)

Attr_scan_open_match(b, r) ==
    IF ~IsSome(r.item) THEN Err(r.pk, "unexpected eof")
    ELSE IF IsPunct(b, r.item, QUOTE)
    THEN Attr_scan_open_next(b, TRUE, Peekable_next(b, r.pk))
    ELSE IF r.item.kind \in {"Ident", "Punct"} THEN Err(r.pk, "expected 'DQUOTE'")
    ELSE Attr_scan_open_next(b, FALSE, Peekable_next(b, r.pk))

Attr_scan_open(b, p) == Attr_scan_open_match(b, Peekable_peek(b, p))

\* eq
RECURSIVE Attr_scan_eq(_, _)
RECURSIVE Attr_scan_eq_match(_, _)
RECURSIVE Attr_scan_eq_next(_, _, _)
\* iter.next().expect(peeked!()) then break (eq) or continue, n the result of next()
Attr_scan_eq_next(b, eq, n) ==
    IF ~IsSome(n.item) THEN Panic(n.pk)
    ELSE IF eq THEN Attr_scan_open(b, n.pk)
    ELSE Attr_scan_eq(b, n.pk)

\* Attr::scan without the valueless key before `>`
Attr_scan_eq_match_NoShorthand(b, r) ==
    IF ~IsSome(r.item) THEN Err(r.pk, "unexpected eof")
    ELSE IF IsPunct(b, r.item, EQ)
    THEN Attr_scan_eq_next(b, TRUE, Peekable_next(b, r.pk))
    ELSE IF r.item.kind = "Whitespace"
    THEN Attr_scan_eq_next(b, FALSE, Peekable_next(b, r.pk))
    ELSE IF r.item.kind = "Punct" THEN Err(r.pk, "expected '=' or '>'")
    ELSE Ok(r.pk, NoNode)

\* Attr::scan, the match on peek!() after the key
Attr_scan_eq_match(b, r) ==
    IF ~IsSome(r.item) THEN Err(r.pk, "unexpected eof")
    ELSE IF IsPunct(b, r.item, EQ)
    THEN Attr_scan_eq_next(b, TRUE, Peekable_next(b, r.pk))
    ELSE IF r.item.kind = "Whitespace"
    THEN Attr_scan_eq_next(b, FALSE, Peekable_next(b, r.pk))
    ELSE IF IsPunct(b, r.item, GT) THEN Ok(r.pk, NoNode)
    ELSE IF r.item.kind = "Punct" THEN Err(r.pk, "expected '=' or '>'")
    ELSE Ok(r.pk, NoNode)

Attr_scan_eq(b, p) == Attr_scan_eq_match(b, Peekable_peek(b, p))

\* key
RECURSIVE Attr_scan_key(_, _)
RECURSIVE Attr_scan_key_match(_, _)
\* Attr::scan that passes over a `/` in front of a key
Attr_scan_key_match_SkipSlash(b, r) ==
    IF ~IsSome(r.item) THEN Err(r.pk, "unexpected eof")
    ELSE IF r.item.kind = "Ident" THEN Attr_scan_eq(b, r.pk)
    ELSE IF r.item.kind = "Whitespace" \/ IsPunct(b, r.item, SLASH)
    THEN Attr_scan_key(b, r.pk)
    ELSE Err(r.pk, "expected an identifier")

\* Attr::scan, the match on next!() of the key loop
Attr_scan_key_match(b, r) ==
    IF ~IsSome(r.item) THEN Err(r.pk, "unexpected eof")
    ELSE IF r.item.kind = "Ident" THEN Attr_scan_eq(b, r.pk)
    ELSE IF r.item.kind = "Whitespace" THEN Attr_scan_key(b, r.pk)
    ELSE Err(r.pk, "expected an identifier")

Attr_scan_key(b, p) == Attr_scan_key_match(b, Peekable_next(b, p))

Attr_scan(b, p) == Attr_scan_key(b, p)

(***************************************************************************)
(* Element                                                                 *)
(***************************************************************************)
\* Element::peek: [pk, ok]
Element_peek(b, p) == peek_puncts(b, p, 0, <<LT>>)

\* the loop of a Close element
RECURSIVE Element_parse_close(_, _)
RECURSIVE Element_parse_close_match(_, _)
\* the Close loop without the whitespace arm
Element_parse_close_match_NoWs(b, r) ==
    IF ~IsSome(r.item) THEN Err(r.pk, "unexpected eof")
    ELSE IF IsPunct(b, r.item, GT) THEN Ok(r.pk, NoNode)
    ELSE Err(r.pk, "expected '>'")

\* the Close loop that passes over every token up to the `>`
Element_parse_close_match_SkipAll(b, r) ==
    IF ~IsSome(r.item) THEN Err(r.pk, "unexpected eof")
    ELSE IF IsPunct(b, r.item, GT) THEN Ok(r.pk, NoNode)
    ELSE Element_parse_close(b, r.pk)

\* Element::parse, the match on next!() of the Close loop
Element_parse_close_match(b, r) ==
    IF ~IsSome(r.item) THEN Err(r.pk, "unexpected eof")
    ELSE IF IsPunct(b, r.item, GT) THEN Ok(r.pk, NoNode)
    ELSE IF r.item.kind = "Whitespace" THEN Element_parse_close(b, r.pk)
    ELSE Err(r.pk, "expected '>'")

Element_parse_close(b, p) == Element_parse_close_match(b, Peekable_next(b, p))

\* the attributes loop of an Open element, and the `>` consumed after it
RECURSIVE Element_parse_attrs(_, _)
RECURSIVE Element_parse_attrs_match(_, _)
RECURSIVE Element_parse_attrs_next(_, _)
RECURSIVE Element_parse_attrs_scan(_, _)
\* iter.next().expect(peeked!()); continue, n the result of next()
Element_parse_attrs_next(b, n) ==
    IF ~IsSome(n.item) THEN Panic(n.pk) ELSE Element_parse_attrs(b, n.pk)

\* Attr::scan(iter, buf)?, a its result
Element_parse_attrs_scan(b, a) ==
    IF a.st # "ok" THEN a ELSE Element_parse_attrs(b, a.pk)

Element_parse_attrs_match(b, r) ==
    IF ~IsSome(r.item) THEN Err(r.pk, "unexpected eof")
    ELSE IF IsPunct(b, r.item, GT) THEN Expected(Peekable_next(b, r.pk))
    ELSE IF r.item.kind = "Whitespace"
    THEN Element_parse_attrs_next(b, Peekable_next(b, r.pk))
    ELSE Element_parse_attrs_scan(b, Attr_scan(b, r.pk))

Element_parse_attrs(b, p) == Element_parse_attrs_match(b, Peekable_peek(b, p))

\* the rest of Element::parse once `<`, the tag and the kind are known
Element_parse_rest(b, p, lt, tag, kind) ==
    Spanned("Element", lt.span, kind, tag.span,
            IF kind = "Close" THEN Element_parse_close(b, p)
            ELSE Element_parse_attrs(b, p))

\* the second  match next!(iter)  of the 'out block, t2 the result of next()
Element_parse_tag2(b, lt, t2) ==
    IF ~IsSome(t2.item) THEN Err(t2.pk, "unexpected eof")
    ELSE IF t2.item.kind = "Ident"
    THEN Element_parse_rest(b, t2.pk, lt, t2.item, "Close")
    ELSE Err(t2.pk, "expected an identifier")

\* the first  match next!(iter)  of the 'out block, t1 the result of next()
Element_parse_tag1(b, lt, t1) ==
    IF ~IsSome(t1.item) THEN Err(t1.pk, "unexpected eof")
    ELSE IF t1.item.kind = "Ident"
    THEN Element_parse_rest(b, t1.pk, lt, t1.item, "Open")
    ELSE IF ~IsPunct(b, t1.item, SLASH) THEN Err(t1.pk, "expected '/' or an identifier")
    ELSE Element_parse_tag2(b, lt, Peekable_next(b, t1.pk))

\* let lt = iter.next().expect(peeked!()), o its result
Element_parse_lt(b, o) ==
    IF ~IsSome(o.item) THEN Panic(o.pk)
    ELSE Element_parse_tag1(b, o.item, Peekable_next(b, o.pk))

Element_parse(b, p) == Element_parse_lt(b, Peekable_next(b, p))

(***************************************************************************)
(* Text                                                                    *)
(***************************************************************************)
RECURSIVE Text_parse_loop(_, _)
RECURSIVE Text_parse_match(_, _)
RECURSIVE Text_parse_next(_, _)
\* iter.next().expect(peeked!()), n the result of next()
Text_parse_next(b, n) ==
    IF ~IsSome(n.item) THEN Panic(n.pk) ELSE Text_parse_loop(b, n.pk)

\* Text::parse that ends at any punctuation
Text_parse_match_AnyPunct(b, r) ==
    IF ~IsSome(r.item) THEN Ok(r.pk, NoNode)
    ELSE IF r.item.kind = "Punct" THEN Ok(r.pk, NoNode)
    ELSE Text_parse_next(b, Peekable_next(b, r.pk))

\* Text::parse, the match on iter.peek() of the loop
Text_parse_match(b, r) ==
    IF ~IsSome(r.item) THEN Ok(r.pk, NoNode)
    ELSE IF IsPunct(b, r.item, LT) THEN Ok(r.pk, NoNode)
    ELSE Text_parse_next(b, Peekable_next(b, r.pk))

Text_parse_loop(b, p) == Text_parse_match(b, Peekable_peek(b, p))

\* let tree = iter.next().expect(peeked!()), o its result
Text_parse_tree(b, o) ==
    IF ~IsSome(o.item) THEN Panic(o.pk)
    ELSE Spanned("Text", o.item.span, "None", Span_unknown, Text_parse_loop(b, o.pk))

Text_parse(b, p) == Text_parse_tree(b, Peekable_next(b, p))

(***************************************************************************)
(* html-parser tokenizer::Tokenizer (the SyntaxTree iterator):             *)
(* [pk, st, node], st = "none" when the iterator returns None              *)
(***************************************************************************)
HtmlTokenizer_new == Peekable_new

\* a driver that reports the end of input as an error
HtmlTokenizer_next_text_ErrAtEnd(b, t) ==
    IF IsSome(t.item) THEN Text_parse(b, t.pk)
    ELSE Err(t.pk, "unexpected eof")

\* _ => if self.iter.peek().is_some() { Text } else { return None }
HtmlTokenizer_next_text(b, t) ==
    IF IsSome(t.item) THEN Text_parse(b, t.pk)
    ELSE [pk |-> t.pk, st |-> "none", node |-> NoNode]

\* _ if Element::peek(..) => Element
HtmlTokenizer_next_element(b, e) ==
    IF e.ok THEN Element_parse(b, e.pk)
    ELSE HtmlTokenizer_next_text(b, Peekable_peek(b, e.pk))

\* _ if DOCTYPE::peek(..) => DOCTYPE
HtmlTokenizer_next_doctype(b, d) ==
    IF d.ok THEN DOCTYPE_parse(b, d.pk)
    ELSE HtmlTokenizer_next_element(b, Element_peek(b, d.pk))

\* a driver that tries Doctype before Comment
HtmlTokenizer_next_comment_DoctypeFirst(b, c) ==
    HtmlTokenizer_next_doctype(b, DOCTYPE_peek(b, c.pk))

\* _ if Comment::peek(..) => Comment
HtmlTokenizer_next_comment(b, c) ==
    IF c.ok THEN Comment_parse(b, c.pk)
    ELSE HtmlTokenizer_next_doctype(b, DOCTYPE_peek(b, c.pk))

HtmlTokenizer_next(b, p) == HtmlTokenizer_next_comment(b, Comment_peek(b, p))

(***************************************************************************)
(* buf-iter crate: Span, Error, ErrorKind                                  *)
(***************************************************************************)
\* usize subtraction in a build without overflow checks
usize_wrapping_sub(a, b) == (a - b) % (2 ^ UsizeBits)

\* u8::is_ascii_alphabetic
is_ascii_alphabetic(byte) == byte \in UPPER_A..UPPER_Z \/ byte \in LOWER_A..LOWER_Z

\* u8::is_ascii_alphanumeric
is_ascii_alphanumeric(byte) == is_ascii_alphabetic(byte) \/ byte \in DIGIT0..DIGIT9

\* Span::into_spanned that stops before the byte at span.offset
buf_iter_Span_into_spanned_Exclusive(self, span) ==
    [self EXCEPT !.len = span.offset - self.offset]

\* Span::into_spanned: self.len = span.offset - self.offset + 1; the callers
\* extend to a later span, so that the subtraction does not underflow
buf_iter_Span_into_spanned(self, span) ==
    [self EXCEPT !.len = span.offset - self.offset + 1]

\* Span::spanned: the same assignment through &mut self
buf_iter_Span_spanned(self, span) ==
    [self EXCEPT !.len = span.offset - self.offset + 1]

\* ErrorKind
ErrorKind(kind, expect, found) == [kind |-> kind, expect |-> expect, found |-> found]
ErrorKind_Eof == ErrorKind("Eof", NoByte, NoByte)
ErrorKind_Unexpected(found) == ErrorKind("Unexpected", NoByte, found)
ErrorKind_ExpectEof(expect) == ErrorKind("ExpectEof", expect, NoByte)
ErrorKind_ExpectFound(expect, found) == ErrorKind("ExpectFound", expect, found)
ErrorKind_ExpectAlphabetic(found) == ErrorKind("ExpectAlphabetic", NoByte, found)
ErrorKind_ExpectIdent(found) == ErrorKind("ExpectIdent", NoByte, found)
NoErrorKind == ErrorKind("None", NoByte, NoByte)

\* what a call returns: Ok(byte), Ok(Span), Err(Error { kind, span }),
\* Some(byte), None, or no value at all when the call panics
Outcome(kind, byte, err, span) == [kind |-> kind, byte |-> byte, err |-> err, span |-> span]
Result_Ok(byte) == Outcome("Ok", byte, NoErrorKind, Span_unknown)
Result_Span(span) == Outcome("Span", NoByte, NoErrorKind, span)
\* Error::new
Result_Err(span, kind) == Outcome("Err", NoByte, kind, span)
Option_Some(byte) == Outcome("Some", byte, NoErrorKind, Span_unknown)
Option_None == Outcome("None", NoByte, NoErrorKind, Span_unknown)
Aborted == Outcome("Panic", NoByte, NoErrorKind, Span_unknown)
NoCall == Outcome("New", NoByte, NoErrorKind, Span_unknown)

\* Error::is_eof
Error_is_eof(res) == res.err.kind = "Eof"

(***************************************************************************)
(* buf-iter crate: BufIter, [offset, line, col] over the shared buffer.    *)
(* A mutating call gives [it, res]: the cursor after it and what it        *)
(* returned; dbg is cfg(debug_assertions) of the build.                    *)
(***************************************************************************)
\* BufIter::new
buf_iter_new == [offset |-> 0, line |-> 1, col |-> 0]

\* BufIter::from_span
buf_iter_from_span(span) == [offset |-> span.offset, line |-> span.line, col |-> span.col]

\* BufIter::span: under cfg(debug_assertions) it panics at offset 0; without,
\* self.offset - 1 wraps around
buf_iter_span(dbg, it) ==
    IF dbg /\ it.offset = 0 THEN Aborted
    ELSE Result_Span(Span_new(usize_wrapping_sub(it.offset, 1), 1, it.line, it.col))

\* BufIter::error: Error::new(self.span(), kind)
buf_iter_error_at(s, kind) ==
    IF s.kind = "Panic" THEN Aborted ELSE Result_Err(s.span, kind)

buf_iter_error(dbg, it, kind) == buf_iter_error_at(buf_iter_span(dbg, it), kind)

\* BufIter::eof: Error::eof(self.span())
buf_iter_eof(dbg, it) == buf_iter_error(dbg, it, ErrorKind_Eof)

\* BufIter::peek_n that looks at the next byte whatever n is
buf_iter_peek_n_First(b, it, n) ==
    IF it.offset < Len(b) THEN Option_Some(b[it.offset + 1]) ELSE Option_None

\* BufIter::peek_n: self.buf.get(self.offset + n)
buf_iter_peek_n(b, it, n) ==
    IF it.offset + n < Len(b) THEN Option_Some(b[it.offset + n + 1]) ELSE Option_None

\* BufIter::peek: self.buf.get(self.offset)
buf_iter_peek(b, it) ==
    IF it.offset < Len(b) THEN Option_Some(b[it.offset + 1]) ELSE Option_None

\* BufIter::next; a cursor made by from_span can stand beyond the buffer
buf_iter_next(dbg, b, it) ==
    IF Len(b) = it.offset
    THEN [it |-> it, res |-> buf_iter_eof(dbg, it)]
    ELSE IF it.offset > Len(b)              \* self.buf[self.offset]: index out of bounds
    THEN [it |-> it, res |-> Aborted]
    ELSE [it |-> [offset |-> it.offset + 1,
                  line |-> IF b[it.offset + 1] = NL THEN it.line + 1 ELSE it.line,
                  col |-> IF b[it.offset + 1] = NL THEN 1 ELSE it.col + 1],
          res |-> Result_Ok(b[it.offset + 1])]

\* BufIter::next_as, the match on self.next()
buf_iter_next_as_match(dbg, B, r) ==
    IF r.res.kind = "Panic" THEN r
    ELSE IF r.res.kind = "Ok" /\ r.res.byte = B THEN [it |-> r.it, res |-> Result_Ok(B)]
    ELSE IF r.res.kind = "Ok"
    THEN [it |-> r.it, res |-> buf_iter_error(dbg, r.it, ErrorKind_ExpectFound(B, r.res.byte))]
    ELSE IF Error_is_eof(r.res)
    THEN [it |-> r.it, res |-> buf_iter_error(dbg, r.it, ErrorKind_ExpectEof(B))]
    ELSE r

\* BufIter::next_as
buf_iter_next_as(dbg, b, it, B) == buf_iter_next_as_match(dbg, B, buf_iter_next(dbg, b, it))

\* BufIter::next_alphabetic, the match on self.next()?
buf_iter_next_alphabetic_match(dbg, r) ==
    IF r.res.kind # "Ok" THEN r
    ELSE IF is_ascii_alphabetic(r.res.byte) THEN r
    ELSE [it |-> r.it, res |-> buf_iter_error(dbg, r.it, ErrorKind_ExpectAlphabetic(r.res.byte))]

\* BufIter::next_alphabetic
buf_iter_next_alphabetic(dbg, b, it) ==
    buf_iter_next_alphabetic_match(dbg, buf_iter_next(dbg, b, it))

\* BufIter::next_ident, the match on self.next()?
buf_iter_next_ident_match(dbg, r) ==
    IF r.res.kind # "Ok" THEN r
    ELSE IF is_ascii_alphanumeric(r.res.byte) THEN r
    ELSE IF r.res.byte = UNDERSCORE THEN [it |-> r.it, res |-> Result_Ok(UNDERSCORE)]
    ELSE [it |-> r.it, res |-> buf_iter_error(dbg, r.it, ErrorKind_ExpectIdent(r.res.byte))]

\* BufIter::next_ident
buf_iter_next_ident(dbg, b, it) ==
    buf_iter_next_ident_match(dbg, buf_iter_next(dbg, b, it))

\* BufIter::next_peeked: self.next().expect("peeked"); after a peek that gave
\* Some, next is Ok
buf_iter_next_peeked(dbg, b, it) == buf_iter_next(dbg, b, it).it

\* the loop of collect_ident, collect_as and collect_with: next_peeked while
\* the peeked byte is one of `class`
RECURSIVE buf_iter_collect_loop(_, _, _, _)
buf_iter_collect_loop(dbg, b, it, class) ==
    IF it.offset < Len(b) /\ b[it.offset + 1] \in class
    THEN buf_iter_collect_loop(dbg, b, buf_iter_next_peeked(dbg, b, it), class)
    ELSE it

\* the tail of the three: let span = self.span(); loop; span.into_spanned(&self.span())
buf_iter_collect_end(dbg, first, last) ==
    IF first.kind = "Panic" \/ last.kind = "Panic" THEN Aborted
    ELSE Result_Span(buf_iter_Span_into_spanned(first.span, last.span))

buf_iter_collect_run(dbg, it, end) ==
    [it |-> end, res |-> buf_iter_collect_end(dbg, buf_iter_span(dbg, it), buf_iter_span(dbg, end))]

buf_iter_collect_tail(dbg, b, it, class) ==
    buf_iter_collect_run(dbg, it, buf_iter_collect_loop(dbg, b, it, class))

\* the bytes the loop of collect_ident goes on with
collect_ident_class == {x \in 0..255 : is_ascii_alphanumeric(x)}

\* BufIter::collect_ident, the match on self.next()?
buf_iter_collect_ident_match(dbg, b, r) ==
    IF r.res.kind # "Ok" THEN r
    ELSE IF r.res.byte = UNDERSCORE \/ is_ascii_alphabetic(r.res.byte)
    THEN buf_iter_collect_tail(dbg, b, r.it, collect_ident_class)
    ELSE [it |-> r.it, res |-> buf_iter_error(dbg, r.it, ErrorKind_Eof)]

\* BufIter::collect_ident
buf_iter_collect_ident(dbg, b, it) ==
    buf_iter_collect_ident_match(dbg, b, buf_iter_next(dbg, b, it))

\* BufIter::collect_as whose loop takes the byte B too
buf_iter_collect_as_match_ThroughB(dbg, b, B, r) ==
    IF r.res.kind = "Panic" THEN r
    ELSE IF r.res.kind = "Ok" /\ r.res.byte # B
    THEN buf_iter_collect_run(dbg, r.it,
            LET e == buf_iter_collect_loop(dbg, b, r.it, (0..255) \ {B})
            IN  IF e.offset < Len(b) THEN buf_iter_next_peeked(dbg, b, e) ELSE e)
    ELSE IF r.res.kind = "Ok"
    THEN [it |-> r.it, res |-> buf_iter_error(dbg, r.it, ErrorKind_ExpectFound(B, r.res.byte))]
    ELSE IF Error_is_eof(r.res)
    THEN [it |-> r.it, res |-> buf_iter_error(dbg, r.it, ErrorKind_ExpectEof(B))]
    ELSE r

\* BufIter::collect_as, the match on self.next()
buf_iter_collect_as_match(dbg, b, B, r) ==
    IF r.res.kind = "Panic" THEN r
    ELSE IF r.res.kind = "Ok" /\ r.res.byte # B
    THEN buf_iter_collect_tail(dbg, b, r.it, (0..255) \ {B})
    ELSE IF r.res.kind = "Ok"
    THEN [it |-> r.it, res |-> buf_iter_error(dbg, r.it, ErrorKind_ExpectFound(B, r.res.byte))]
    ELSE IF Error_is_eof(r.res)
    THEN [it |-> r.it, res |-> buf_iter_error(dbg, r.it, ErrorKind_ExpectEof(B))]
    ELSE r

\* BufIter::collect_as
buf_iter_collect_as(dbg, b, it, B) ==
    buf_iter_collect_as_match(dbg, b, B, buf_iter_next(dbg, b, it))

\* BufIter::collect_with that stops after the first byte
buf_iter_collect_with_match_One(dbg, b, predicate, r) ==
    IF r.res.kind # "Ok" THEN r
    ELSE IF r.res.byte \in predicate
    THEN buf_iter_collect_tail(dbg, b, r.it, {})
    ELSE [it |-> r.it, res |-> buf_iter_error(dbg, r.it, ErrorKind_Unexpected(r.res.byte))]

\* BufIter::collect_with, the match on self.next()?; predicate is the set of
\* the bytes the closure returns true for
buf_iter_collect_with_match(dbg, b, predicate, r) ==
    IF r.res.kind # "Ok" THEN r
    ELSE IF r.res.byte \in predicate
    THEN buf_iter_collect_tail(dbg, b, r.it, predicate)
    ELSE [it |-> r.it, res |-> buf_iter_error(dbg, r.it, ErrorKind_Unexpected(r.res.byte))]

\* BufIter::collect_with
buf_iter_collect_with(dbg, b, it, predicate) ==
    buf_iter_collect_with_match(dbg, b, predicate, buf_iter_next(dbg, b, it))

(***************************************************************************)
(* Inputs.  Every instance borrows one buffer, fixed at construction.      *)
(***************************************************************************)
\* the literal inputs of the documented examples
Ex_ab_3_plus == <<97, 98, 95, 51, 32, 43>>                            \* "ab_3 +"
Ex_hello_div == <<104, 101, 108, 108, 111, 60, 100, 105, 118, 62>>   \* "hello<div>"
Ex_comment == <<60, 33, 45, 45, 32, 104, 105, 32, 45, 45, 62>>   \* "<!-- hi -->"
Ex_unterminated == <<60, 33, 45, 45, 32, 117, 110, 116, 101, 114, 109, 105, 110, 97, 116, 101, 100>>
Ex_div_class == <<60, 100, 105, 118, 32, 99, 108, 97, 115, 115, 61, 34, 97, 34, 62>>   \* <div class="a">
Ex_close_div == <<60, 47, 100, 105, 118, 62>>                        \* "</div>"
Ex_doctype == <<60, 33, 68, 79, 67, 84, 89, 80, 69, 32, 104, 116, 109, 108, 62>>   \* "<!DOCTYPE html>"
Ex_input_disabled == <<60, 105, 110, 112, 117, 116, 32, 100, 105, 115, 97, 98, 108, 101, 100, 62>>   \* "<input disabled>"
Ex_a_b_c == <<60, 97, 32, 98, 32, 99, 62>>                        \* "<a b c>"

TokAlphabet == {LOWER_A, DIGIT3, UNDERSCORE, SP, NL, PLUS}

PeekAlphabet == {LOWER_A, SP, PLUS}

HtmlAlphabet == {LT, BANG, DASH, GT, SLASH, EQ, QUOTE, LOWER_A, SP}

\* "", "a ", "<!--", "<!", "<a", "</a", "<a a=DQUOTE", "<a a=DQUOTEaDQUOTE"
HtmlPrefixes ==
    { <<>>,
      <<LOWER_A, SP>>,
      <<LT, BANG, DASH, DASH>>,
      <<LT, BANG>>,
      <<LT, LOWER_A>>,
      <<LT, SLASH, LOWER_A>>,
      <<LT, LOWER_A, SP, LOWER_A, EQ, QUOTE>>,
      <<LT, LOWER_A, SP, LOWER_A, EQ, QUOTE, LOWER_A, QUOTE>> }

\* "<!--" and "<!" followed by every string of at most MaxBangBody bytes
BangAlphabet == {DASH, GT, LOWER_A, SP, LT}

BangPrefixes == { <<LT, BANG, DASH, DASH>>, <<LT, BANG>> }

\* the openings of every production, followed by every string of at most
\* MaxTagBody bytes over HtmlAlphabet
TagPrefixes ==
    { <<>>,
      <<LOWER_A, SP>>,
      <<LT, LOWER_A>>,
      <<LT, LOWER_A, SP, LOWER_A, EQ, QUOTE, LOWER_A, QUOTE>>,
      <<LT, SLASH>>,
      <<LT, BANG>>,
      <<LT, BANG, DASH, DASH>> }

\* an open tag up to the opening quote of a value, followed by every string
\* of at most MaxQuoteBody bytes
QuoteAlphabet == {QUOTE, GT, LT, LOWER_A, SP, EQ}

QuotePrefixes ==
    { <<LT, LOWER_A, SP, LOWER_A, EQ, QUOTE>>,
      <<LT, LOWER_A, SP, LOWER_A, SP, EQ, SP, QUOTE>> }

\* "<a", "<a a" and "</a" followed by every string of at most MaxElemBody bytes
ElemAlphabet == {SP, LOWER_A, EQ, QUOTE, GT}

ElemPrefixes ==
    { <<LT, LOWER_A>>, <<LT, LOWER_A, SP, LOWER_A>>, <<LT, SLASH, LOWER_A>> }

\* the cursor: the bytes of the buffers, the const parameters B of next_as and
\* collect_as, and the closures given to collect_with
CurAlphabet == {LOWER_A, UNDERSCORE, DIGIT3, NL}
CurBytes == {UNDERSCORE, NL}
CurPredicates == { {LOWER_A, DIGIT3}, {LOWER_A, UNDERSCORE, DIGIT3}, {NL} }

(***************************************************************************)
(* The state machine.                                                      *)
(***************************************************************************)
\* the instances right after construction over buf
Constructed ==
    /\ tz = Tokenizer_new
    /\ toks = <<>>
    /\ tzEnd = FALSE
    /\ pk = Peekable_new
    /\ drained = <<>>
    /\ pkLast = [op |-> "new", n |-> 0, item |-> NoneTok]
    /\ pkEnd = FALSE
    /\ panicked = FALSE
    /\ gr = HtmlTokenizer_new
    /\ nodes = <<>>
    /\ grEnd = "run"

\* a record of a call on a cursor
Call(op, arg, predicate, pre, res) ==
    [op |-> op, arg |-> arg, predicate |-> predicate, pre |-> pre, res |-> res]

\* no span extension yet, over the spans self and span
NoExt(self, span) == [op |-> "none", self |-> self, span |-> span, out |-> Span_unknown]

\* the cursor right after BufIter::new(buf), no fork of it yet
CursorNew ==
    /\ cu = buf_iter_new
    /\ cuLast = Call("new", NoByte, {}, buf_iter_new, NoCall)
    /\ fk = buf_iter_new
    /\ fkSeed = Span_unknown

\* buf is one of the examples, or one of the prefixes followed by a string of
\* at most max bytes of the alphabet
InitOn(prefixes, alphabet, max, examples) ==
    /\ \/ \E p \in prefixes, k \in 0..max : \E s \in [1..k -> alphabet] : buf = p \o s
       \/ buf \in examples
    /\ Constructed
    /\ debug_assertions = TRUE
    /\ CursorNew
    /\ ext = NoExt(Span_unknown, Span_unknown)

\* tz.next()
TokenizerNext ==
    LET r == Tokenizer_next(buf, tz) IN
    /\ tz' = r.iter
    /\ toks' = IF IsSome(r.item) THEN Append(toks, r.item) ELSE toks
    /\ tzEnd' = ~IsSome(r.item)
    /\ UNCHANGED <<buf, pk, drained, pkLast, pkEnd, panicked, gr, nodes, grEnd, curVars>>

\* pk.peek_n(n)
PeekN(n) ==
    /\ ~panicked
    /\ LET r == Peekable_peek_n(buf, pk, n) IN
       /\ pk' = r.pk
       /\ panicked' = r.panic
       /\ pkLast' = [op |-> "peek_n", n |-> n, item |-> r.item]
    /\ UNCHANGED <<buf, tz, toks, tzEnd, drained, pkEnd, gr, nodes, grEnd, curVars>>

\* pk.next()
PeekableNext ==
    /\ ~panicked
    /\ LET r == Peekable_next(buf, pk) IN
       /\ pk' = r.pk
       /\ drained' = IF IsSome(r.item) THEN Append(drained, r.item) ELSE drained
       /\ pkEnd' = ~IsSome(r.item)
       /\ pkLast' = [op |-> "next", n |-> 0, item |-> r.item]
    /\ UNCHANGED <<buf, tz, toks, tzEnd, panicked, gr, nodes, grEnd, curVars>>

\* the caller's side of next() of the html Tokenizer, r its result
Yield(r) ==
    /\ gr' = r.pk
    /\ nodes' = IF r.st \in {"ok", "err"} THEN Append(nodes, r.node) ELSE nodes
    /\ grEnd' = IF r.st = "ok" THEN "run" ELSE r.st

\* next() of the html Tokenizer, called until it yields None or an Err
HtmlNext ==
    /\ grEnd = "run"
    /\ Yield(HtmlTokenizer_next(buf, gr))
    /\ UNCHANGED <<buf, tz, toks, tzEnd, pk, drained, pkLast, pkEnd, panicked, curVars>>

\* a call on cu that returned r = [it, res]
CurCall(op, arg, predicate, r) ==
    /\ cuLast.res.kind # "Panic"
    /\ cu' = r.it
    /\ cuLast' = Call(op, arg, predicate, cu, r.res)
    /\ UNCHANGED <<buf, tokVars, debug_assertions, fk, fkSeed, ext>>

\* cu.next()
CurNext == CurCall("next", NoByte, {}, buf_iter_next(debug_assertions, buf, cu))

\* cu.next_as::<B>()
CurNextAs(B) == CurCall("next_as", B, {}, buf_iter_next_as(debug_assertions, buf, cu, B))

\* cu.next_alphabetic()
CurNextAlphabetic ==
    CurCall("next_alphabetic", NoByte, {}, buf_iter_next_alphabetic(debug_assertions, buf, cu))

\* cu.next_ident()
CurNextIdent ==
    CurCall("next_ident", NoByte, {}, buf_iter_next_ident(debug_assertions, buf, cu))

\* cu.peek()
CurPeek == CurCall("peek", NoByte, {}, [it |-> cu, res |-> buf_iter_peek(buf, cu)])

\* cu.peek_n(n)
CurPeekN(n) == CurCall("peek_n", n, {}, [it |-> cu, res |-> buf_iter_peek_n(buf, cu, n)])

\* cu.span()
CurSpan == CurCall("span", NoByte, {}, [it |-> cu, res |-> buf_iter_span(debug_assertions, cu)])

\* cu.collect_ident()
CurCollectIdent ==
    CurCall("collect_ident", NoByte, {}, buf_iter_collect_ident(debug_assertions, buf, cu))

\* cu.collect_as::<B>()
CurCollectAs(B) ==
    CurCall("collect_as", B, {}, buf_iter_collect_as(debug_assertions, buf, cu, B))

\* cu.collect_with(predicate)
CurCollectWith(predicate) ==
    CurCall("collect_with", NoByte, predicate,
            buf_iter_collect_with(debug_assertions, buf, cu, predicate))

\* fk = BufIter::from_span(buf, cu.span())
Fork ==
    /\ cuLast.res.kind # "Panic"
    /\ buf_iter_span(debug_assertions, cu).kind = "Span"
    /\ fkSeed' = buf_iter_span(debug_assertions, cu).span
    /\ fk' = buf_iter_from_span(buf_iter_span(debug_assertions, cu).span)
    /\ cuLast' = Call("from_span", NoByte, {}, cu, NoCall)
    /\ UNCHANGED <<buf, tokVars, debug_assertions, cu, ext>>

\* a call on fk that returned r = [it, res]
ForkCall(op, r) ==
    /\ cuLast.res.kind # "Panic"
    /\ fkSeed # Span_unknown
    /\ fk' = r.it
    /\ cuLast' = Call(op, NoByte, {}, fk, r.res)
    /\ UNCHANGED <<buf, tokVars, debug_assertions, cu, fkSeed, ext>>

\* fk.next()
ForkNext == ForkCall("fk.next", buf_iter_next(debug_assertions, buf, fk))

\* a span extension that gave out
Extend(op, out) ==
    /\ ext.op = "none"
    /\ ext' = [ext EXCEPT !.op = op, !.out = out]
    /\ UNCHANGED <<buf, tokVars, debug_assertions, cu, cuLast, fk, fkSeed>>

\* self.spanned(&span) of the buf-iter crate
ExtSpanned == Extend("spanned", buf_iter_Span_spanned(ext.self, ext.span))

\* self.into_spanned(&span) of the buf-iter crate
ExtIntoSpanned == Extend("into_spanned", buf_iter_Span_into_spanned(ext.self, ext.span))

\* self.spanned_into(span) of the tokenizer crate
ExtSpannedInto == Extend("spanned_into", Span_spanned_into(ext.self, ext.span))

InitTok == InitOn({<<>>}, TokAlphabet, MaxTokLen, {Ex_ab_3_plus})
NextTok == TokenizerNext
SpecTok == InitTok /\ [][NextTok]_vars

InitPeek == InitOn({<<>>}, PeekAlphabet, MaxPeekLen, {})
NextPeek == (\E n \in 0..N : PeekN(n)) \/ PeekableNext
SpecPeek == InitPeek /\ [][NextPeek]_vars

InitBang ==
    InitOn(BangPrefixes, BangAlphabet, MaxBangBody, {Ex_comment, Ex_unterminated, Ex_doctype})
SpecBang == InitBang /\ [][HtmlNext]_vars

InitElem ==
    InitOn(ElemPrefixes, ElemAlphabet, MaxElemBody,
           {Ex_div_class, Ex_close_div, Ex_input_disabled, Ex_a_b_c})
SpecElem == InitElem /\ [][HtmlNext]_vars

InitQuote == InitOn(QuotePrefixes, QuoteAlphabet, MaxQuoteBody, {Ex_div_class})
SpecQuote == InitQuote /\ [][HtmlNext]_vars

InitTag == InitOn(TagPrefixes, HtmlAlphabet, MaxTagBody, {Ex_close_div})
SpecTag == InitTag /\ [][HtmlNext]_vars

\* a cursor over a buffer of at most MaxCurLen bytes, in either build
InitCur ==
    /\ \E k \in 0..MaxCurLen : \E s \in [1..k -> CurAlphabet] : buf = s
    /\ Constructed
    /\ debug_assertions \in BOOLEAN
    /\ CursorNew
    /\ ext = NoExt(Span_unknown, Span_unknown)
NextCur ==
    \/ CurNext
    \/ \E B \in CurBytes : CurNextAs(B)
    \/ CurPeek
    \/ \E n \in 0..MaxCurLen : CurPeekN(n)
    \/ CurSpan
    \/ CurCollectIdent
    \/ \E B \in CurBytes : CurCollectAs(B)
    \/ \E predicate \in CurPredicates : CurCollectWith(predicate)
SpecCur == InitCur /\ [][NextCur]_vars

\* the calls on a cursor that can return an error
NextKind ==
    \/ CurNext
    \/ \E B \in CurBytes : CurNextAs(B)
    \/ CurNextAlphabetic
    \/ CurNextIdent
    \/ CurCollectIdent
    \/ \E B \in CurBytes : CurCollectAs(B)
    \/ \E predicate \in CurPredicates : CurCollectWith(predicate)
SpecKind == InitCur /\ [][NextKind]_vars

\* a cursor and the cursors made from the spans it captures
NextFork == CurNext \/ Fork \/ ForkNext
SpecFork == InitCur /\ [][NextFork]_vars

\* a span self and a later span to extend it to
InitExt ==
    /\ buf = <<>>
    /\ Constructed
    /\ debug_assertions = TRUE
    /\ CursorNew
    /\ \E a \in 0..MaxSpanOffset, l \in 1..MaxLine, line \in 1..MaxLine, col \in 1..MaxLine :
       \E o \in a..MaxSpanOffset, sl \in 1..MaxLine, sc \in 1..MaxLine :
          ext = NoExt(Span_new(a, l, line, col), Span_new(o, 1, sl, sc))
NextExt == ExtSpanned \/ ExtIntoSpanned \/ ExtSpannedInto
SpecExt == InitExt /\ [][NextExt]_vars

Init ==
    InitOn(HtmlPrefixes, HtmlAlphabet, MaxBody,
           {Ex_hello_div, Ex_comment, Ex_unterminated, Ex_div_class, Ex_close_div, Ex_doctype})
Next == HtmlNext
Spec == Init /\ [][Next]_vars

(***************************************************************************)
(* Properties.                                                             *)
(***************************************************************************)
\* the byte classes as the documentation states them
AsciiWhitespace == {9, 10, 12, 13, 32}
IdentBytes == (48..57) \cup (65..90) \cup (97..122) \cup {95}
ClassOf(byte) ==
    IF byte \in AsciiWhitespace THEN "Whitespace"
    ELSE IF byte \in IdentBytes THEN "Ident"
    ELSE "Punct"

\* C1: lookahead order preservation.  The tokens pk.next() has returned, after
\* any interleaving of peek_n(n) and next() calls, are a prefix of the tokens
\* the Tokenizer yields when driven directly with no buffering, in the same
\* order; and once pk.next() has returned None they are all of them.
C1_OrderPreserved ==
    /\ Len(drained) <= Len(tokenize(buf))
    /\ drained = SubSeq(tokenize(buf), 1, Len(drained))
    /\ pkEnd => drained = tokenize(buf)

\* C1 witness: two tokens drained while later tokens sit peeked in the buffer
C1_Witness ==
    /\ Len(drained) >= 2
    /\ IsSome(pk.peeked[1]) /\ IsSome(pk.peeked[2]) /\ IsSome(pk.peeked[3])
    /\ ~panicked

\* C9: tokenizer classification.  The kind of every token is the class of the
\* first byte of its run, whitespace tested first, then [A-Za-z0-9_] (a leading
\* digit included), anything else Punct; and "ab_3 +" yields exactly
\* Ident "ab_3", Whitespace " ", Punct "+".
C9_Classification ==
    /\ \A i \in 1..Len(toks) :
          /\ toks[i].span.offset < Len(buf)
          /\ toks[i].kind = ClassOf(buf[toks[i].span.offset + 1])
    /\ (buf = Ex_ab_3_plus /\ tzEnd) =>
          toks = << Tok("Ident", Span_new(0, 4, 1, 1)),
                    Tok("Whitespace", Span_new(4, 1, 1, 5)),
                    Tok("Punct", Span_new(5, 1, 1, 6)) >>

\* C9 witness: the tokenizer ran to the end of an input that holds an
\* identifier with a leading digit, whitespace and punctuation
C9_Witness ==
    /\ tzEnd
    /\ \E i \in 1..Len(toks) : toks[i].kind = "Ident" /\ buf[toks[i].span.offset + 1] = DIGIT3
    /\ \E i \in 1..Len(toks) : toks[i].kind = "Whitespace"
    /\ \E i \in 1..Len(toks) : toks[i].kind = "Punct"

\* C10: token runs are maximal and never straddle classes.  Every token has
\* len >= 1; a Punct token has len exactly 1; an Ident (Whitespace) token covers
\* only identifier (whitespace) bytes and is never immediately followed by
\* another Ident (Whitespace) token.
C10_MaximalRuns ==
    \A i \in 1..Len(toks) :
       LET t == toks[i] IN
       /\ t.span.len >= 1
       /\ t.span.offset + t.span.len <= Len(buf)
       /\ t.kind = "Punct" => t.span.len = 1
       /\ t.kind \in {"Ident", "Whitespace"} =>
             /\ \A j \in (t.span.offset + 1)..(t.span.offset + t.span.len) :
                   ClassOf(buf[j]) = t.kind
             /\ i < Len(toks) => toks[i + 1].kind # t.kind

\* C10 witness: a multi-byte identifier, a whitespace run and two
\* adjacent punctuation tokens were yielded
C10_Witness ==
    /\ \E i \in 1..Len(toks) : toks[i].kind = "Ident" /\ toks[i].span.len >= 2
    /\ \E i \in 1..Len(toks) : toks[i].kind = "Whitespace"
    /\ \E i \in 1..(Len(toks) - 1) : toks[i].kind = "Punct" /\ toks[i + 1].kind = "Punct"

\* the nodes yielded so far, without the Err item
IsNode(n) == n.kind \in {"Comment", "DOCTYPE", "Element", "Text"}

\* a span that evaluate can slice: at least one byte, inside the buffer
SpanOk(sp) ==
    /\ sp.len >= 1
    /\ sp.offset + sp.len <= Len(buf)
    /\ Len(evaluate(buf, sp)) = sp.len

\* C2: Text stops at `<`.  A Text node covers exactly the tokens it consumed:
\* after its first token, which is consumed unconditionally, it holds no `<`
\* byte, and it ends at the end of input or right before a `<`;
\* "hello<div>" yields the Text "hello" followed by an Element.
C2_TextStopsAtLt ==
    /\ \A i \in 1..Len(nodes) :
          nodes[i].kind = "Text" =>
             LET first == nodes[i].span.offset + 1
                 last == nodes[i].span.offset + nodes[i].span.len
             IN  /\ \A j \in (first + 1)..last : j <= Len(buf) => buf[j] # LT
                 /\ last = Len(buf) \/ (last < Len(buf) /\ buf[last + 1] = LT)
    /\ (buf = Ex_hello_div /\ Len(nodes) >= 1) =>
          /\ nodes[1].kind = "Text"
          /\ evaluate(buf, nodes[1].span) = SubSeq(Ex_hello_div, 1, 5)
    /\ (buf = Ex_hello_div /\ Len(nodes) >= 2) => nodes[2].kind = "Element"

\* C3: every token the tokenizer produces and every node the grammar yields
\* has a span with len >= 1 and offset + len <= buffer length, so that
\* evaluate returns exactly len bytes starting at offset.
C3_SpansInBuffer ==
    /\ \A i \in 1..Len(tokenize(buf)) : SpanOk(tokenize(buf)[i].span)
    /\ \A i \in 1..N : IsSome(gr.peeked[i]) => SpanOk(gr.peeked[i].span)
    /\ \A i \in 1..Len(nodes) :
          IsNode(nodes[i]) =>
             /\ SpanOk(nodes[i].span)
             /\ nodes[i].kind = "Element" => SpanOk(nodes[i].tag_span)

\* C3 witness: a Text node that ended at a `<` and an Element after it
C3_Witness ==
    /\ Len(nodes) >= 2
    /\ nodes[1].kind = "Text"
    /\ nodes[2].kind = "Element"
    /\ Len(tokenize(buf)) >= 4

StartsWith(b, pre) == Len(b) >= Len(pre) /\ SubSeq(b, 1, Len(pre)) = pre

\* the bytes e-2..e are `-->` and lie after the four opening bytes `<!--`
TermAt(b, e) ==
    /\ e >= 7 /\ e <= Len(b)
    /\ b[e - 2] = 45 /\ b[e - 1] = 45 /\ b[e] = 62

\* `<!--`, a body, `-->`, with no earlier `-->` after the opening
CommentForm(b) ==
    /\ StartsWith(b, <<60, 33, 45, 45>>)
    /\ TermAt(b, Len(b))
    /\ \A e \in 7..(Len(b) - 1) : ~TermAt(b, e)

\* C4: comment round-trip.  An input `<!--` body `-->` yields exactly one
\* node, a Comment whose span runs from the `<` through the terminating `>`,
\* so that its evaluated text is the whole input.
C4_CommentRoundTrip ==
    CommentForm(buf) =>
       /\ Len(nodes) <= 1
       /\ grEnd \in {"run", "none"}
       /\ grEnd = "none" => Len(nodes) = 1
       /\ Len(nodes) = 1 =>
             /\ nodes[1] = Node("Comment", Span_new(0, Len(buf), 1, 1), "None", Span_unknown)
             /\ evaluate(buf, nodes[1].span) = buf

\* C4 witness: the grammar ran to the end of a comment whose body holds a `-`
\* or a `>`
C4_Witness ==
    /\ CommentForm(buf)
    /\ grEnd = "none"
    /\ Len(nodes) = 1
    /\ \E j \in 5..(Len(buf) - 3) : buf[j] \in {45, 62}

\* `<!--` with no `-->` after it
Unterminated(b) ==
    /\ StartsWith(b, <<60, 33, 45, 45>>)
    /\ \A e \in 7..Len(b) : ~TermAt(b, e)

\* C5: truncation failure.  For an input that starts with `<!--` and holds no
\* later `-->`, the first item yielded is the error "unexpected eof" and no
\* Comment node is emitted.
C5_Truncation ==
    Unterminated(buf) =>
       /\ Len(nodes) <= 1
       /\ grEnd \in {"run", "err"}
       /\ grEnd = "err" => Len(nodes) = 1
       /\ Len(nodes) = 1 => nodes[1].kind = "Err" /\ nodes[1].msg = "unexpected eof"

\* C5 witness: the error was yielded for an unterminated comment that holds
\* a `>` and a `-` after the opening
C5_Witness ==
    /\ Unterminated(buf)
    /\ grEnd = "err"
    /\ \E j \in 5..Len(buf) : buf[j] = 62
    /\ \E j \in 5..Len(buf) : buf[j] = 45

\* `<!` not followed by `--`, with a `>` later on
DoctypeForm(b) ==
    /\ StartsWith(b, <<60, 33>>)
    /\ ~StartsWith(b, <<60, 33, 45, 45>>)
    /\ \E j \in 3..Len(b) : b[j] = 62

\* the index of the first `>` after the `!`
FirstGt(b) == CHOOSE j \in 3..Len(b) : b[j] = 62 /\ \A k \in 3..(j - 1) : b[k] # 62

\* C8: doctype.  For an input that starts with `<!` not followed by `--` and
\* holds a later `>`, the first item is a Doctype node whose span runs from the
\* `<` through the first `>` after the `!`.
C8_Doctype ==
    DoctypeForm(buf) =>
       /\ nodes = <<>> => grEnd = "run"
       /\ Len(nodes) >= 1 =>
             /\ nodes[1] = Node("DOCTYPE", Span_new(0, FirstGt(buf), 1, 1), "None", Span_unknown)
             /\ evaluate(buf, nodes[1].span) = SubSeq(buf, 1, FirstGt(buf))

\* C8 witness: a Doctype was yielded for `<!-` .. `>` with more input after it
C8_Witness ==
    /\ DoctypeForm(buf)
    /\ Len(nodes) >= 1
    /\ buf[3] = 45
    /\ FirstGt(buf) < Len(buf)

\* the number of identifier bytes of b from index i on
RECURSIVE IdentRun(_, _)
IdentRun(b, i) ==
    IF i <= Len(b) /\ b[i] \in IdentBytes THEN 1 + IdentRun(b, i + 1) ELSE 0

\* b[i..] is a mix of whitespace and well-formed attributes (key, key="value")
\* closed by a `>` that is the last byte.  st: "items" between attributes,
\* "key" inside a key, "afterkey" whitespace after a key, "eq" after `=`,
\* "val" inside a quoted value
RECURSIVE AttrsThenGt(_, _, _)
AttrsThenGt(b, i, st) ==
    IF i > Len(b) THEN FALSE
    ELSE IF st = "val" THEN AttrsThenGt(b, i + 1, IF b[i] = QUOTE THEN "items" ELSE "val")
    ELSE IF st = "eq" THEN
        IF b[i] \in AsciiWhitespace THEN AttrsThenGt(b, i + 1, "eq")
        ELSE b[i] = QUOTE /\ AttrsThenGt(b, i + 1, "val")
    ELSE IF b[i] = GT THEN i = Len(b)
    ELSE IF b[i] \in IdentBytes THEN AttrsThenGt(b, i + 1, "key")
    ELSE IF b[i] \in AsciiWhitespace
    THEN AttrsThenGt(b, i + 1, IF st = "items" THEN "items" ELSE "afterkey")
    ELSE b[i] = EQ /\ st \in {"key", "afterkey"} /\ AttrsThenGt(b, i + 1, "eq")

\* `<` Identifier, whitespace and well-formed attributes, `>`
OpenForm(b) ==
    /\ Len(b) >= 3
    /\ b[1] = LT
    /\ IdentRun(b, 2) >= 1
    /\ Len(b) >= 2 + IdentRun(b, 2)
    /\ \/ b[2 + IdentRun(b, 2)] = GT /\ Len(b) = 2 + IdentRun(b, 2)
       \/ /\ b[2 + IdentRun(b, 2)] \in AsciiWhitespace
          /\ AttrsThenGt(b, 3 + IdentRun(b, 2), "items")

\* C6: element open with attributes.  An input `<` Identifier, any mix of
\* whitespace and well-formed attributes, `>` yields exactly one node, an Open
\* Element whose tag span is the identifier after the `<` and whose span runs
\* from the `<` through the terminating `>`.
C6_ElementOpen ==
    OpenForm(buf) =>
       /\ Len(nodes) <= 1
       /\ grEnd \in {"run", "none"}
       /\ grEnd = "none" => Len(nodes) = 1
       /\ Len(nodes) = 1 =>
             /\ nodes[1] = Node("Element", Span_new(0, Len(buf), 1, 1), "Open",
                                Span_new(1, IdentRun(buf, 2), 1, 2))
             /\ evaluate(buf, nodes[1].span) = buf
             /\ evaluate(buf, nodes[1].tag_span) = SubSeq(buf, 2, 1 + IdentRun(buf, 2))
       /\ (buf = Ex_div_class /\ Len(nodes) = 1) =>
             evaluate(buf, nodes[1].tag_span) = <<100, 105, 118>>

\* C6 witness: the grammar ran to the end of an open tag that holds a key
\* with a quoted value
C6_Witness ==
    /\ OpenForm(buf)
    /\ grEnd = "none"
    /\ Len(nodes) = 1
    /\ \E j \in 1..Len(buf) : buf[j] = EQ

\* `<`, `/`, Identifier, optional whitespace, `>`
CloseForm(b) ==
    /\ Len(b) >= 4
    /\ b[1] = LT /\ b[2] = SLASH
    /\ IdentRun(b, 3) >= 1
    /\ b[Len(b)] = GT
    /\ \A j \in (3 + IdentRun(b, 3))..(Len(b) - 1) : b[j] \in AsciiWhitespace

\* C7: element close.  An input `<`, `/`, Identifier, optional whitespace, `>`
\* yields exactly one node, a Close Element whose tag span is the identifier's
\* span and whose span runs from the `<` through the `>`.
C7_ElementClose ==
    CloseForm(buf) =>
       /\ Len(nodes) <= 1
       /\ grEnd \in {"run", "none"}
       /\ grEnd = "none" => Len(nodes) = 1
       /\ Len(nodes) = 1 =>
             /\ nodes[1] = Node("Element", Span_new(0, Len(buf), 1, 1), "Close",
                                Span_new(2, IdentRun(buf, 3), 1, 3))
             /\ evaluate(buf, nodes[1].tag_span) = SubSeq(buf, 3, 2 + IdentRun(buf, 3))
       /\ (buf = Ex_close_div /\ Len(nodes) = 1) =>
             evaluate(buf, nodes[1].tag_span) = <<100, 105, 118>>

\* C7 witness: the grammar ran to the end of a close tag with whitespace
\* before its `>`
C7_Witness ==
    /\ CloseForm(buf)
    /\ grEnd = "none"
    /\ Len(nodes) = 1
    /\ buf[Len(buf) - 1] = SP

\* C11: span extension.  Extending a span A to a later span S sets A.len to
\* S.offset - A.offset + 1 and leaves A.offset, A.line and A.col as they are,
\* in Span::spanned and Span::into_spanned of the buf-iter crate and in
\* Span::spanned_into of the tokenizer crate; (offset 2, len 1) extended to
\* offset 9 has len 8.
C11_SpanExtension ==
    ext.op # "none" =>
       /\ ext.span.offset >= ext.self.offset
       /\ ext.out.len = ext.span.offset - ext.self.offset + 1
       /\ ext.out.offset = ext.self.offset
       /\ ext.out.line = ext.self.line
       /\ ext.out.col = ext.self.col
       /\ (ext.self.offset = 2 /\ ext.self.len = 1 /\ ext.span.offset = 9) => ext.out.len = 8

\* C11 witness: into_spanned has extended (offset 2, len 1) to a span at offset 9
C11_Witness ==
    /\ ext.op = "into_spanned"
    /\ ext.self.offset = 2 /\ ext.self.len = 1
    /\ ext.span.offset = 9
    /\ ext.out.len = 8

\* C12: cursor advance.  For every buffer, the empty one included, and every
\* cursor position, next() either returns the byte at the current offset and
\* increases offset by exactly one, or, at the end of the buffer, returns an
\* error of kind Eof and leaves offset, line and col as they are; it never
\* aborts.
C12_CursorAdvance ==
    cuLast.op = "next" =>
       \/ /\ cuLast.pre.offset < Len(buf)
          /\ cuLast.res = Result_Ok(buf[cuLast.pre.offset + 1])
          /\ cu.offset = cuLast.pre.offset + 1
       \/ /\ cuLast.pre.offset = Len(buf)
          /\ cuLast.res.kind = "Err"
          /\ cuLast.res.err = ErrorKind_Eof
          /\ cu = cuLast.pre

\* the 1-based line of byte i: one more than the newlines among bytes 0..i-1
LineOf(b, i) == 1 + Cardinality({j \in 1..i : b[j] = NL})

\* the 1-based column of byte i: one more than the bytes between the last
\* newline before i and i
ColOf(b, i) ==
    IF \E j \in 1..i : b[j] = NL
    THEN i + 1 - (CHOOSE j \in 1..i : b[j] = NL /\ \A k \in (j + 1)..i : b[k] # NL)
    ELSE i + 1

\* C13: cursor line/column bookkeeping.  For a cursor created with
\* BufIter::new and advanced over bytes 0..i, the Span captured right after
\* byte i has offset i, len 1 and the 1-based line and column of byte i; the
\* first byte of every line has col 1.
C13_LineCol ==
    (cuLast.op = "span" /\ cuLast.res.kind = "Span" /\ cuLast.pre.offset >= 1) =>
       cuLast.res.span = Span_new(cuLast.pre.offset - 1, 1,
                                  LineOf(buf, cuLast.pre.offset - 1),
                                  ColOf(buf, cuLast.pre.offset - 1))

\* the cursor made by BufIter::new after k calls of next()
RECURSIVE AdvancedBy(_, _, _, _)
AdvancedBy(dbg, b, it, k) ==
    IF k = 0 THEN it ELSE AdvancedBy(dbg, b, buf_iter_next(dbg, b, it).it, k - 1)

\* the Span the original cursor captured right after it advanced over byte j
CapturedAt(dbg, b, j) == buf_iter_span(dbg, AdvancedBy(dbg, b, buf_iter_new, j + 1)).span

\* C14: checkpoint/resume.  A cursor built with from_span(buf, S), S captured
\* by another cursor right after it advanced over byte i, stands at offset i,
\* and once it has advanced over byte i and onward it captures the Spans the
\* original cursor captured for the same bytes.
C14_Resume ==
    (fkSeed # Span_unknown /\ fkSeed.offset < Len(buf)) =>
       /\ fkSeed = CapturedAt(debug_assertions, buf, fkSeed.offset)
       /\ fk.offset >= fkSeed.offset
       /\ cuLast.op = "from_span" => fk.offset = fkSeed.offset
       /\ (cuLast.op = "fk.next" /\ cuLast.res.kind = "Ok") =>
             buf_iter_span(debug_assertions, fk).span =
                CapturedAt(debug_assertions, buf, fk.offset - 1)

\* C15: capture_span before any advance is a loud contract violation.
\* span() called on a cursor whose offset is 0 never returns a Span value;
\* it panics.
C15_SpanBeforeAdvance ==
    (cuLast.op = "span" /\ cuLast.pre.offset = 0) => cuLast.res.kind = "Panic"

\* C16: advance_expecting.  next_as::<B>() returns B when the next byte is
\* B, the error ExpectFound(B, found) when another byte found is next, and
\* the error ExpectEof(B) when no byte remains; the plain Eof kind is never
\* returned.
C16_NextAs ==
    cuLast.op = "next_as" =>
       LET at == cuLast.pre.offset
           B == cuLast.arg
       IN  /\ (at < Len(buf) /\ buf[at + 1] = B) => cuLast.res = Result_Ok(B)
           /\ (at < Len(buf) /\ buf[at + 1] # B) =>
                 /\ cuLast.res.kind = "Err"
                 /\ cuLast.res.err = ErrorKind_ExpectFound(B, buf[at + 1])
           /\ at >= Len(buf) =>
                 /\ cuLast.res.kind = "Err"
                 /\ cuLast.res.err = ErrorKind_ExpectEof(B)
           /\ cuLast.res.err # ErrorKind_Eof

\* C17: cursor lookahead is non-mutating.  peek() and peek_n(n) leave offset,
\* line and col as they are; peek_n(n) returns the byte at offset + n when
\* offset + n is inside the buffer and None otherwise, never an error; peek()
\* equals peek_n(0) and is the byte the next advance returns.
C17_Lookahead ==
    /\ cuLast.op = "peek_n" =>
          /\ cu = cuLast.pre
          /\ cuLast.pre.offset + cuLast.arg < Len(buf) =>
                cuLast.res = Option_Some(buf[cuLast.pre.offset + cuLast.arg + 1])
          /\ cuLast.pre.offset + cuLast.arg >= Len(buf) => cuLast.res = Option_None
    /\ cuLast.op = "peek" =>
          /\ cu = cuLast.pre
          /\ cuLast.res.kind \in {"Some", "None"}
          /\ cuLast.res = buf_iter_peek_n(buf, cu, 0)
          /\ cuLast.res.kind = "Some" =>
                buf_iter_next(debug_assertions, buf, cu).res = Result_Ok(cuLast.res.byte)
          /\ cuLast.res.kind = "None" =>
                buf_iter_next(debug_assertions, buf, cu).res.kind # "Ok"

\* C17 witness: after an advance, peek_n looked two bytes ahead at a byte
\* that differs from the next one
C17_Witness ==
    /\ cuLast.op = "peek_n"
    /\ cuLast.arg = 2
    /\ cuLast.pre.offset >= 1
    /\ cuLast.res.kind = "Some"
    /\ cuLast.res.byte # buf[cu.offset + 1]

\* the length of the maximal run of bytes of b from offset k that are in class
RECURSIVE RunLen(_, _, _)
RunLen(b, k, class) ==
    IF k < Len(b) /\ b[k + 1] \in class THEN 1 + RunLen(b, k + 1, class) ELSE 0

\* C18: collect_while.  collect_with(p), called at offset k with a byte
\* present, succeeds iff p(buf[k]) holds; it then returns a Span with offset k
\* and the length of the maximal run of bytes from k satisfying p, and leaves
\* the cursor right after that run; if p(buf[k]) is false it returns an error.
C18_CollectWith ==
    (cuLast.op = "collect_with" /\ cuLast.pre.offset < Len(buf)) =>
       LET k == cuLast.pre.offset
           p == cuLast.predicate
       IN  /\ cuLast.res.kind = "Span" <=> buf[k + 1] \in p
           /\ buf[k + 1] \in p =>
                 /\ cuLast.res.span.offset = k
                 /\ cuLast.res.span.len = RunLen(buf, k, p)
                 /\ cu.offset = k + RunLen(buf, k, p)
                 /\ cu.offset = Len(buf) \/ buf[cu.offset + 1] \notin p
           /\ buf[k + 1] \notin p => cuLast.res.kind = "Err"

\* C18 witness: past the start of the buffer, collect_with has collected a run
\* of several bytes that ends before a byte failing the predicate
C18_Witness ==
    /\ cuLast.op = "collect_with"
    /\ cuLast.pre.offset >= 1
    /\ cuLast.res.kind = "Span"
    /\ cuLast.res.span.len >= 2
    /\ cu.offset < Len(buf)

\* C19: collect_ident collects an identifier as documented.  It succeeds iff
\* the next byte is ASCII alphabetic or `_` (never a digit), and then returns
\* the Span of the maximal run of identifier bytes (ASCII alphanumeric or `_`)
\* from that byte, stopping without error at the first other byte or at the
\* end of input.
C19_CollectIdent ==
    cuLast.op = "collect_ident" =>
       LET k == cuLast.pre.offset IN
       /\ cuLast.res.kind = "Span" <=>
             /\ k < Len(buf)
             /\ buf[k + 1] \in IdentBytes \ (DIGIT0..DIGIT9)
       /\ cuLast.res.kind = "Span" =>
             /\ cuLast.res.span.offset = k
             /\ cuLast.res.span.len = RunLen(buf, k, IdentBytes)
             /\ cu.offset = k + RunLen(buf, k, IdentBytes)

\* C20: collect_as::<B>(), called when the next byte exists and differs from
\* B, returns the Span of the bytes from the current position up to but
\* excluding the next occurrence of B, or up to the end of input when B does
\* not occur; B is not consumed, so that next_as::<B>() right after it
\* succeeds whenever B occurs.
C20_CollectAs ==
    (/\ cuLast.op = "collect_as"
     /\ cuLast.pre.offset < Len(buf)
     /\ buf[cuLast.pre.offset + 1] # cuLast.arg) =>
       LET k == cuLast.pre.offset
           B == cuLast.arg
           n == RunLen(buf, k, (0..255) \ {B})
       IN  /\ cuLast.res.kind = "Span"
           /\ cuLast.res.span.offset = k
           /\ cuLast.res.span.len = n
           /\ \A j \in (k + 1)..(k + n) : buf[j] # B
           /\ cu.offset = k + n
           /\ (\E j \in (k + 1)..Len(buf) : buf[j] = B) =>
                 /\ buf[cu.offset + 1] = B
                 /\ buf_iter_next_as(debug_assertions, buf, cu, B).res = Result_Ok(B)
           /\ (\A j \in (k + 1)..Len(buf) : buf[j] # B) => cu.offset = Len(buf)

\* C20 witness: past the start of the buffer, collect_as has collected several
\* bytes and stopped in front of a B
C20_Witness ==
    /\ cuLast.op = "collect_as"
    /\ cuLast.pre.offset >= 1
    /\ cuLast.res.kind = "Span"
    /\ cuLast.res.span.len >= 2
    /\ cu.offset < Len(buf)
    /\ buf[cu.offset + 1] = cuLast.arg

\* C21: capacity violation.  Every call peek_n(n) with n >= N panics, however
\* many tokens remain in the underlying tokenizer; it never returns a token
\* or None.
C21_Capacity ==
    (pkLast.op = "peek_n" /\ pkLast.n >= N) => panicked

\* C22: peeking never mutates position.  The position Peekable::span()
\* reports is the same right before and right after any peek_n or peek call.
C22_PeekKeepsSpan ==
    [][(pkLast'.op = "peek_n" /\ pk' # pk /\ ~panicked') =>
          Peekable_span(pk') = Peekable_span(pk)]_vars

\* the token n places ahead of the driver is the punctuation `byte`
Ahead(n, byte) == IsPunct(buf, Peekable_peek_n(buf, gr, n).item, byte)

\* the production the fixed order Comment, Doctype, Element, Text gives for
\* the tokens ahead of the driver; "None" when no token is left
FirstMatching ==
    IF Ahead(0, LT) /\ Ahead(1, BANG) /\ Ahead(2, DASH) /\ Ahead(3, DASH) THEN "Comment"
    ELSE IF Ahead(0, LT) /\ Ahead(1, BANG) THEN "DOCTYPE"
    ELSE IF Ahead(0, LT) THEN "Element"
    ELSE IF IsSome(Peekable_peek(buf, gr).item) THEN "Text"
    ELSE "None"

\* what the production `kind` returns when it runs on the tokens ahead
RunOf(kind) ==
    CASE kind = "Comment" -> Comment_parse(buf, gr)
      [] kind = "DOCTYPE" -> DOCTYPE_parse(buf, gr)
      [] kind = "Element" -> Element_parse(buf, gr)
      [] kind = "Text" -> Text_parse(buf, gr)
      [] OTHER -> [pk |-> gr, st |-> "none", node |-> NoNode]

\* C23: dispatch priority.  Every call of the driver runs the first matching
\* production in the order Comment, Doctype, Element, Text: the node or error
\* it yields is the one that production gives on the tokens ahead, so `<!--`
\* is never parsed as Doctype or Element, `<!` without `--` never as Element,
\* and a Text node is yielded only when the next token is not `<`.
C23_Dispatch ==
    [][(grEnd = "run" /\ (nodes' # nodes \/ grEnd' # grEnd)) =>
          LET kind == FirstMatching
              r == RunOf(kind)
          IN  /\ grEnd' = (IF r.st = "ok" THEN "run" ELSE r.st)
              /\ r.st \in {"ok", "err"} => nodes' = Append(nodes, r.node)
              /\ r.st \notin {"ok", "err"} => nodes' = nodes
              /\ (Len(nodes') > Len(nodes) /\ IsNode(nodes'[Len(nodes')])) =>
                    nodes'[Len(nodes')].kind = kind]_vars

\* C23 witness: from a position that starts with the tokens `<`, `!`, `-`,
\* `-` the driver has just yielded a Comment node
C23_Witness ==
    /\ StartsWith(buf, <<LT, BANG, DASH, DASH>>)
    /\ Len(nodes) = 1
    /\ nodes[1].kind = "Comment"
    /\ nodes[1].span.offset = 0
    /\ grEnd = "run"

\* the tokens the driver has not consumed: the filled slots and what the
\* tokenizer still holds
Remaining(p) ==
    Cardinality({i \in 1..N : IsSome(p.peeked[i])}) + Len(tokenize_from(buf, p.iter))

\* C24: the driver yields a finite sequence and stops cleanly.  Every call
\* that produces a node consumes at least one token, so the count of tokens
\* left, a natural number, decreases strictly until a call yields an error
\* or None; with no token left (the empty input included) next() returns
\* None and no error.
C24_StopsCleanly ==
    [][(grEnd = "run" /\ (nodes' # nodes \/ grEnd' # grEnd)) =>
          /\ grEnd' = "run" =>
                /\ Len(nodes') = Len(nodes) + 1
                /\ IsNode(nodes'[Len(nodes')])
                /\ Remaining(gr') < Remaining(gr)
          /\ grEnd' # "run" => Len(nodes') <= Len(nodes) + 1
          /\ Remaining(gr) = 0 => (grEnd' = "none" /\ nodes' = nodes)]_vars

\* C24 witness: the driver has produced two nodes and then, with no token
\* left, returned None
C24_Witness ==
    /\ grEnd = "none"
    /\ Len(nodes) = 2
    /\ IsNode(nodes[1]) /\ IsNode(nodes[2])
    /\ Remaining(gr) = 0

\* C25: the tokenizer is total and finite.  Tokenizer::next never aborts (the
\* next() under each expect and unwrap finds a byte), it returns None exactly
\* when every byte has been consumed and goes on returning None from there
\* without moving, and it yields at most Len(buf) tokens, each of at least
\* one byte.
C25_Total ==
    /\ tz.offset <= Len(buf)
    /\ Len(toks) <= Len(buf)
    /\ \A i \in 1..Len(toks) : toks[i].span.len >= 1 /\ toks[i].span # Span_unknown
    /\ IsSome(Tokenizer_next(buf, tz).item) <=> tz.offset < Len(buf)
    /\ IsSome(Tokenizer_next(buf, tz).item) =>
          /\ BufIter_next(buf, tz).byte # NoByte
          /\ Tokenizer_next(buf, tz).iter.offset > tz.offset
    /\ tzEnd =>
          /\ tz.offset = Len(buf)
          /\ Tokenizer_next(buf, tz) = [iter |-> tz, item |-> NoneTok]

\* C25 witness: the tokenizer has yielded several tokens, the last of them
\* more than one byte long, and then None
C25_Witness ==
    /\ tzEnd
    /\ Len(toks) >= 2
    /\ Len(toks) < Len(buf)
    /\ toks[Len(toks)].span.len >= 2

\* b[i..] is a mix of whitespace and well-formed attributes and then, where
\* the next attribute key would start, a `/`; st as in AttrsThenGt
RECURSIVE SlashAtKey(_, _, _)
SlashAtKey(b, i, st) ==
    IF i > Len(b) THEN FALSE
    ELSE IF st = "val" THEN SlashAtKey(b, i + 1, IF b[i] = QUOTE THEN "items" ELSE "val")
    ELSE IF st = "eq" THEN
        IF b[i] \in AsciiWhitespace THEN SlashAtKey(b, i + 1, "eq")
        ELSE b[i] = QUOTE /\ SlashAtKey(b, i + 1, "val")
    ELSE IF b[i] = SLASH THEN st = "items"
    ELSE IF b[i] \in IdentBytes THEN SlashAtKey(b, i + 1, "key")
    ELSE IF b[i] \in AsciiWhitespace
    THEN SlashAtKey(b, i + 1, IF st = "items" THEN "items" ELSE "afterkey")
    ELSE b[i] = EQ /\ st \in {"key", "afterkey"} /\ SlashAtKey(b, i + 1, "eq")

\* `<` Identifier, whitespace and well-formed valued attributes, then a `/`
\* in the place of an attribute key, as in `<br/>` and `<br />`
SelfClosingForm(b) ==
    /\ Len(b) >= 3
    /\ b[1] = LT
    /\ IdentRun(b, 2) >= 1
    /\ SlashAtKey(b, 2 + IdentRun(b, 2), "items")

\* C26: self-closing tags are unsupported.  In an Open element, a `/` where
\* an attribute key is expected makes Element parsing fail with the error
\* "expected an identifier"; the driver yields that error and no Element node.
C26_SelfClosing ==
    SelfClosingForm(buf) =>
       /\ nodes = <<>> => grEnd = "run"
       /\ nodes # <<>> =>
             /\ Len(nodes) = 1
             /\ nodes[1].kind = "Err"
             /\ nodes[1].msg = "expected an identifier"
             /\ grEnd = "err"

\* C26 witness: the driver has failed on a `/` that follows the tag name, a
\* valued attribute and whitespace
C26_Witness ==
    /\ SelfClosingForm(buf)
    /\ grEnd = "err"
    /\ \E j \in 1..Len(buf) : buf[j] = EQ
    /\ \E j \in 2..Len(buf) : buf[j] = SLASH /\ buf[j - 1] = SP

\* b[i..] is whitespace and valueless keys closed by a `>` that is the last
\* byte; keys: a key has been passed
RECURSIVE KeysThenGt(_, _, _)
KeysThenGt(b, i, keys) ==
    IF i > Len(b) THEN FALSE
    ELSE IF b[i] = GT THEN i = Len(b) /\ keys
    ELSE IF b[i] \in AsciiWhitespace THEN KeysThenGt(b, i + 1, keys)
    ELSE b[i] \in IdentBytes /\ KeysThenGt(b, i + IdentRun(b, i), TRUE)

\* `<` Identifier, then one or more valueless keys set off by whitespace, `>`
ShorthandForm(b) ==
    /\ Len(b) >= 3
    /\ b[1] = LT
    /\ IdentRun(b, 2) >= 1
    /\ KeysThenGt(b, 2 + IdentRun(b, 2), FALSE)

\* the part of b that starts at its first attribute key
FromFirstKey(b) ==
    SubSeq(b, 2 + IdentRun(b, 2) + RunLen(b, 1 + IdentRun(b, 2), AsciiWhitespace), Len(b))

\* C27: boolean-attribute shorthand.  After a key and any whitespace, Attr::scan
\* returns success on a `>` or a further Identifier and leaves that token
\* unconsumed, so a tag of valueless keys such as `<input disabled>` or
\* `<a b c>` is one Open Element that spans the whole tag.
C27_Shorthand ==
    ShorthandForm(buf) =>
       /\ LET s == FromFirstKey(buf)
              r == Attr_scan(s, Peekable_new)
              after == Peekable_next(s, r.pk).item
          IN  /\ r.st = "ok"
              /\ after.span.offset = IdentRun(s, 1) + RunLen(s, IdentRun(s, 1), AsciiWhitespace)
              /\ after.kind = "Ident" \/ IsPunct(s, after, GT)
       /\ Len(nodes) <= 1
       /\ grEnd \in {"run", "none"}
       /\ grEnd = "none" => Len(nodes) = 1
       /\ Len(nodes) = 1 =>
             /\ nodes[1].kind = "Element"
             /\ nodes[1].ekind = "Open"
             /\ nodes[1].span.offset = 0
             /\ nodes[1].span.len = Len(buf)
       /\ ShorthandForm(Ex_input_disabled) /\ ShorthandForm(Ex_a_b_c)

\* C27 witness: the driver ran to the end of `<a b c>`, a tag of two
\* valueless keys
C27_Witness ==
    /\ buf = Ex_a_b_c
    /\ ShorthandForm(buf)
    /\ grEnd = "none"
    /\ Len(nodes) = 1

\* C28: the Eof error kind is reported only on exhaustion.  A call returns an
\* error of kind Eof only if no byte was left when it needed one; when a byte
\* was there and failed the class the call requires, the error is of a
\* classification or unexpected-byte kind and carries that byte.
C28_EofOnlyAtEnd ==
    cuLast.res.kind = "Err" =>
       /\ cuLast.res.err.kind = "Eof" => cuLast.pre.offset >= Len(buf)
       /\ (/\ cuLast.pre.offset < Len(buf)
           /\ cuLast.op \in {"next_alphabetic", "next_ident", "collect_ident", "collect_with"}) =>
             /\ cuLast.res.err.kind \in {"ExpectAlphabetic", "ExpectIdent", "Unexpected"}
             /\ cuLast.res.err.found = buf[cuLast.pre.offset + 1]

\* C29: contract-violation aborts are unreachable from the grammar.  Driving
\* the grammar until None or the first error never panics: every
\* next().expect(..) finds a token that an earlier peek has confirmed, and no
\* peek_n of the grammar (indices 0 to 3) reaches a slot outside the N slots.
C29_NoPanic ==
    /\ grEnd # "panic"
    /\ grEnd = "run" => HtmlTokenizer_next(buf, gr).st # "panic"
    /\ \A n \in 0..3 : n < N /\ ~Peekable_peek_n(buf, gr, n).panic

\* C29 witness: the input is `<!--` and nothing more; the four
\* next().expect(..) of Comment::parse took the four tokens that Comment::peek
\* had confirmed, and the driver ended with an error
C29_Witness ==
    /\ buf = <<LT, BANG, DASH, DASH>>
    /\ grEnd = "err"
    /\ Remaining(gr) = 0

\* the index of the `>` of the first `-`, `-`, `>` after the opening `<!--`
FirstTerm(b) == CHOOSE e \in 7..Len(b) : TermAt(b, e) /\ \A k \in 7..(e - 1) : ~TermAt(b, k)

\* C30: comment terminator recognition.  After the four opening tokens,
\* Comment::parse stops at the first token that completes `-`, `-`, `>` among
\* the tokens consumed after the opening (so `--->` ends at its `>`) and at no
\* earlier one; a `-` or `>` outside that sequence and the two `-` of the
\* opening do not count, so `<!-->` and `<!--->` alone are unterminated.
C30_Terminator ==
    (StartsWith(buf, <<LT, BANG, DASH, DASH>>) /\ Len(nodes) >= 1) =>
       /\ IF \E e \in 7..Len(buf) : TermAt(buf, e)
          THEN /\ nodes[1].kind = "Comment"
               /\ nodes[1].span.offset = 0
               /\ nodes[1].span.len = FirstTerm(buf)
          ELSE /\ nodes[1].kind = "Err"
               /\ nodes[1].msg = "unexpected eof"
       /\ buf \in {<<LT, BANG, DASH, DASH, GT>>, <<LT, BANG, DASH, DASH, DASH, GT>>} =>
             nodes[1].kind = "Err"
       /\ buf = <<LT, BANG, DASH, DASH, DASH, DASH, DASH, GT>> =>
             nodes[1].kind = "Comment" /\ nodes[1].span.len = 8

\* C30 witness: a Comment was yielded for `<!--` .. `--->` with more input
\* after the terminating `>`
C30_Witness ==
    /\ StartsWith(buf, <<LT, BANG, DASH, DASH>>)
    /\ Len(nodes) >= 1
    /\ nodes[1].kind = "Comment"
    /\ nodes[1].span.len >= 8
    /\ nodes[1].span.len < Len(buf)
    /\ buf[nodes[1].span.len - 3] = DASH

\* where the attributes b[i..] of an open tag end: the index of the first `>`
\* outside a quoted value, -1 when the input ends inside a quoted value, 0
\* when the bytes are no attribute list or the input ends elsewhere; st as
\* in AttrsThenGt
RECURSIVE AttrsEnd(_, _, _)
AttrsEnd(b, i, st) ==
    IF i > Len(b) THEN (IF st = "val" THEN -1 ELSE 0)
    ELSE IF st = "val" THEN AttrsEnd(b, i + 1, IF b[i] = QUOTE THEN "items" ELSE "val")
    ELSE IF st = "eq" THEN
        IF b[i] \in AsciiWhitespace THEN AttrsEnd(b, i + 1, "eq")
        ELSE IF b[i] = QUOTE THEN AttrsEnd(b, i + 1, "val")
        ELSE 0
    ELSE IF b[i] = GT THEN i
    ELSE IF b[i] \in IdentBytes THEN AttrsEnd(b, i + 1, "key")
    ELSE IF b[i] \in AsciiWhitespace
    THEN AttrsEnd(b, i + 1, IF st = "items" THEN "items" ELSE "afterkey")
    ELSE IF b[i] = EQ /\ st \in {"key", "afterkey"} THEN AttrsEnd(b, i + 1, "eq")
    ELSE 0

\* AttrsEnd of the open tag `<` Identifier ..
OpenEnd(b) ==
    IF Len(b) >= 2 /\ b[1] = LT /\ IdentRun(b, 2) >= 1
    THEN AttrsEnd(b, 2 + IdentRun(b, 2), "items")
    ELSE 0

\* C31: quoted attribute values are opaque.  After the opening quote every
\* token up to the next quote is value content, so a `>` or `<` inside a
\* quoted value does not end the element: the Open Element's span ends at the
\* first `>` outside any quoted value.  When the input ends inside a quoted
\* value the item is the error "unexpected eof".
C31_QuotedValue ==
    (Len(nodes) >= 1 /\ OpenEnd(buf) # 0) =>
       IF OpenEnd(buf) > 0
       THEN /\ nodes[1].kind = "Element"
            /\ nodes[1].ekind = "Open"
            /\ nodes[1].span.offset = 0
            /\ nodes[1].span.len = OpenEnd(buf)
       ELSE /\ nodes[1].kind = "Err"
            /\ nodes[1].msg = "unexpected eof"

\* C31 witness: an Open Element was yielded whose quoted value holds a `>`
\* and a `<`, and that ends at a later `>`
C31_Witness ==
    /\ Len(nodes) >= 1
    /\ nodes[1].kind = "Element"
    /\ OpenEnd(buf) = nodes[1].span.len
    /\ \E j \in 1..(OpenEnd(buf) - 1) : buf[j] = GT
    /\ \E j \in 1..(OpenEnd(buf) - 1) : buf[j] = LT /\ j > 1

\* the attributes b[i..] of an open tag are well formed as far as they go,
\* and the input ends before a `>` outside a quoted value; st as in AttrsThenGt
RECURSIVE AttrsCutShort(_, _, _)
AttrsCutShort(b, i, st) ==
    IF i > Len(b) THEN TRUE
    ELSE IF st = "val" THEN AttrsCutShort(b, i + 1, IF b[i] = QUOTE THEN "items" ELSE "val")
    ELSE IF st = "eq" THEN
        IF b[i] \in AsciiWhitespace THEN AttrsCutShort(b, i + 1, "eq")
        ELSE b[i] = QUOTE /\ AttrsCutShort(b, i + 1, "val")
    ELSE IF b[i] = GT THEN FALSE
    ELSE IF b[i] \in IdentBytes THEN AttrsCutShort(b, i + 1, "key")
    ELSE IF b[i] \in AsciiWhitespace
    THEN AttrsCutShort(b, i + 1, IF st = "items" THEN "items" ELSE "afterkey")
    ELSE b[i] = EQ /\ st \in {"key", "afterkey"} /\ AttrsCutShort(b, i + 1, "eq")

\* the index of the first byte after the tag name of `</` Identifier that is
\* no whitespace
AfterCloseTag(b) == 3 + IdentRun(b, 3) + RunLen(b, 2 + IdentRun(b, 3), AsciiWhitespace)

\* the token after `<` is neither an Identifier nor `/` (nor the `!` of a
\* comment or doctype)
BadTagStart(b) ==
    /\ Len(b) >= 2 /\ b[1] = LT
    /\ b[2] \notin IdentBytes \cup {SLASH, BANG}

\* `/` is not followed by an Identifier
BadCloseName(b) ==
    /\ Len(b) >= 3 /\ b[1] = LT /\ b[2] = SLASH
    /\ b[3] \notin IdentBytes

\* in a Close element a token other than whitespace or `>` follows the tag name
BadCloseTail(b) ==
    /\ Len(b) >= 3 /\ b[1] = LT /\ b[2] = SLASH
    /\ IdentRun(b, 3) >= 1
    /\ AfterCloseTag(b) <= Len(b)
    /\ b[AfterCloseTag(b)] # GT

\* the input ends before the terminating `>`
CutShort(b) ==
    /\ Len(b) >= 1 /\ b[1] = LT
    /\ \/ Len(b) = 1
       \/ Len(b) = 2 /\ b[2] = SLASH
       \/ Len(b) >= 3 /\ b[2] = SLASH /\ IdentRun(b, 3) >= 1 /\ AfterCloseTag(b) > Len(b)
       \/ IdentRun(b, 2) >= 1 /\ AttrsCutShort(b, 2 + IdentRun(b, 2), "items")

\* the error Element::parse gives for a malformed tag b
MalformedMsg(b) ==
    IF BadTagStart(b) THEN "expected '/' or an identifier"
    ELSE IF BadCloseName(b) THEN "expected an identifier"
    ELSE IF BadCloseTail(b) THEN "expected '>'"
    ELSE "unexpected eof"

\* C32: malformed tag shapes are errors, never nodes.  Element::parse fails,
\* and the driver yields the error and no Element, when the token after `<`
\* is neither an Identifier nor `/`, when `/` is not followed by an
\* Identifier, when a token other than whitespace or `>` follows the tag name
\* of a Close element, or when the input ends before the terminating `>`.
C32_Malformed ==
    (BadTagStart(buf) \/ BadCloseName(buf) \/ BadCloseTail(buf) \/ CutShort(buf)) =>
       /\ nodes = <<>> => grEnd = "run"
       /\ nodes # <<>> =>
             /\ Len(nodes) = 1
             /\ grEnd = "err"
             /\ nodes[1].kind = "Err"
             /\ nodes[1].msg = MalformedMsg(buf)

\* C32 witness: the driver has failed on a Close element with a second
\* Identifier after its tag name
C32_Witness ==
    /\ BadCloseTail(buf)
    /\ buf[AfterCloseTag(buf)] \in IdentBytes
    /\ grEnd = "err"
    /\ Len(nodes) = 1

\* the number of tokens p has pulled from its tokenizer
Pulled(p) == Len(tokenize(buf)) - Len(tokenize_from(buf, p.iter))

\* the smaller and the larger of two numbers
Min(a, b) == IF a <= b THEN a ELSE b
Max(a, b) == IF a >= b THEN a ELSE b

\* C33: lookahead peek is lazy, stable and idempotent.  In every reachable
\* state and for every n < N, peek_n(n) pulls from the tokenizer only the
\* tokens needed to fill the empty slots among 0..n, leaves every filled slot
\* as it is, returns the token the (n+1)-th next() from here will return,
\* returns None iff fewer than n+1 unconsumed tokens remain, and when repeated
\* returns the same and pulls nothing more.
C33_PeekLazy ==
    ~panicked =>
       \A n \in 0..(N - 1) :
          LET r == Peekable_peek_n(buf, pk, n)
              all == tokenize(buf)
          IN  /\ ~r.panic
              /\ Pulled(r.pk) = Max(Pulled(pk), Min(Len(drained) + n + 1, Len(all)))
              /\ \A i \in 1..N : IsSome(pk.peeked[i]) => r.pk.peeked[i] = pk.peeked[i]
              /\ IsSome(r.item) <=> Len(drained) + n + 1 <= Len(all)
              /\ IsSome(r.item) => r.item = all[Len(drained) + n + 1]
              /\ Peekable_peek_n(buf, r.pk, n) = r

\* C33 witness: after a next(), peek_n(2) found slot 0 filled, pulled two
\* tokens for slots 1 and 2 and returned the third unconsumed token
C33_Witness ==
    /\ pkLast.op = "peek_n" /\ pkLast.n = 2
    /\ IsSome(pkLast.item)
    /\ Len(drained) >= 1
    /\ Pulled(pk) = Len(drained) + 3
    /\ ~IsSome(pk.peeked[4])
    /\ Pulled(pk) < Len(tokenize(buf))

\* the filled slots of p are a prefix of its slots and hold, in stream order,
\* the tokens that follow the d tokens consumed so far of the stream `all`;
\* p has pulled those and no more
Shape(p, d, all) ==
    /\ \A i \in 1..(N - 1) : ~IsSome(p.peeked[i]) => ~IsSome(p.peeked[i + 1])
    /\ \A i \in 1..N :
          IsSome(p.peeked[i]) => (d + i <= Len(all) /\ p.peeked[i] = all[d + i])
    /\ Cardinality({i \in 1..N : IsSome(p.peeked[i])}) <= N
    /\ Len(all) - Len(tokenize_from(buf, p.iter))
          = d + Cardinality({i \in 1..N : IsSome(p.peeked[i])})

\* C34: lookahead buffer shape.  In every reachable state the filled slots
\* are a contiguous prefix peeked[0..k), k <= N, holding the next k unconsumed
\* tokens in stream order; next() removes slot 0, moves every slot i+1 into
\* slot i, leaves the last slot empty, and pulls from the tokenizer only when
\* the buffer is empty.
C34_BufferShape ==
    [][(~panicked /\ ~panicked') =>
          /\ Shape(pk', Len(drained'), tokenize(buf))
          /\ pkLast'.op = "next" =>
                /\ \A i \in 1..(N - 1) : pk'.peeked[i] = pk.peeked[i + 1]
                /\ ~IsSome(pk'.peeked[N])
                /\ pkLast'.item = (IF IsSome(pk.peeked[1]) THEN pk.peeked[1]
                                   ELSE Tokenizer_next(buf, pk.iter).item)
                /\ pk'.iter # pk.iter => \A i \in 1..N : ~IsSome(pk.peeked[i])]_vars

\* C34 witness: next() has taken slot 0 of a full buffer and left three
\* filled slots and an empty last one
C34_Witness ==
    /\ pkLast.op = "next"
    /\ IsSome(pkLast.item)
    /\ IsSome(pk.peeked[1]) /\ IsSome(pk.peeked[2]) /\ IsSome(pk.peeked[3])
    /\ ~IsSome(pk.peeked[4])
    /\ Pulled(pk) = Len(drained) + 3
    /\ Len(drained) >= 2

\* the bytes of the tokens ts, evaluated and concatenated in order
RECURSIVE Concat(_)
Concat(ts) ==
    IF ts = <<>> THEN <<>> ELSE evaluate(buf, Head(ts).span) \o Concat(Tail(ts))

\* C35: tokens tile the input.  The first token has offset 0, each later
\* token starts where the one before it ends, and the last token ends at the
\* buffer length, so that the evaluated tokens concatenated in order are the
\* input.
C35_Tiling ==
    /\ Len(toks) >= 1 => toks[1].span.offset = 0
    /\ \A i \in 2..Len(toks) :
          toks[i].span.offset = toks[i - 1].span.offset + toks[i - 1].span.len
    /\ Len(toks) >= 1 =>
          toks[Len(toks)].span.offset + toks[Len(toks)].span.len = tz.offset
    /\ Concat(toks) = SubSeq(buf, 1, tz.offset)
    /\ tzEnd => (tz.offset = Len(buf) /\ Concat(toks) = buf)

\* C35 witness: the tokenizer ran to the end of an input of at least three
\* tokens, one of them a whitespace run and one an identifier of several bytes
C35_Witness ==
    /\ tzEnd
    /\ Len(toks) >= 3
    /\ \E i \in 1..Len(toks) : toks[i].kind = "Whitespace" /\ toks[i].span.len >= 2
    /\ \E i \in 1..Len(toks) : toks[i].kind = "Ident" /\ toks[i].span.len >= 2

\* C36: token line and column.  The Span of every token carries the 1-based
\* line and column of the token's first byte: line is one more than the
\* newlines before its offset, col one more than the bytes since the last
\* newline before its offset (col 1 at the start of the buffer and right
\* after a newline).
C36_TokenLineCol ==
    \A i \in 1..Len(toks) :
       /\ toks[i].span.line = LineOf(buf, toks[i].span.offset)
       /\ toks[i].span.col = ColOf(buf, toks[i].span.offset)
       /\ toks[i].span.offset = 0 => (toks[i].span.line = 1 /\ toks[i].span.col = 1)
       /\ (toks[i].span.offset >= 1 /\ buf[toks[i].span.offset] = NL) => toks[i].span.col = 1

\* C36 witness: a token that starts right after a newline, on line 2 or
\* later, and a token that starts further into a line
C36_Witness ==
    /\ \E i \in 1..Len(toks) :
          /\ toks[i].span.offset >= 1
          /\ buf[toks[i].span.offset] = NL
          /\ toks[i].kind # "Whitespace"
          /\ toks[i].span.line >= 2
    /\ \E i \in 1..Len(toks) : toks[i].span.line >= 2 /\ toks[i].span.col >= 2

\* C37: node spans partition the input.  When the grammar has parsed an input
\* to the end without error, the first node starts at offset 0, every later
\* node starts at the offset + len of the node before it, and the last node
\* ends at the buffer length.
C37_Partition ==
    (grEnd = "none" /\ Len(nodes) >= 1) =>
       /\ nodes[1].span.offset = 0
       /\ \A i \in 2..Len(nodes) :
             nodes[i].span.offset = nodes[i - 1].span.offset + nodes[i - 1].span.len
       /\ nodes[Len(nodes)].span.offset + nodes[Len(nodes)].span.len = Len(buf)

\* C38: text runs are maximal.  The first token of a Text node is never the
\* punctuation `<`, and the grammar never yields two Text nodes in a row: the
\* item after a Text node is a Comment, a Doctype, an Element, an error, or
\* the end of the sequence.
C38_TextMaximal ==
    /\ \A i \in 1..Len(nodes) :
          nodes[i].kind = "Text" =>
             /\ nodes[i].span.offset < Len(buf)
             /\ buf[nodes[i].span.offset + 1] # LT
             /\ i < Len(nodes) => nodes[i + 1].kind \in {"Comment", "DOCTYPE", "Element", "Err"}
    /\ (Len(nodes) >= 1 /\ nodes[Len(nodes)].kind = "Text" /\ grEnd = "run") =>
          HtmlTokenizer_next(buf, gr).st \in {"none", "err"}
             \/ HtmlTokenizer_next(buf, gr).node.kind \in {"Comment", "DOCTYPE", "Element"}

\* C38 witness: a Text node of two tokens, followed by an Element
C38_Witness ==
    /\ Len(nodes) >= 2
    /\ nodes[1].kind = "Text"
    /\ nodes[1].span.len >= 3
    /\ nodes[2].kind = "Element"

====
